---- MODULE Spec2Model ----
(***************************************************************************)
(* State-machine model of the EntityManager plugin (EntityManager.cpp,     *)
(* EntityManager.h, EntityReference.cpp, EntityReference.h).               *)
(*                                                                         *)
(* The program is single threaded: every public entry point runs to        *)
(* completion, so each entry point is one action.  Calls made from inside  *)
(* an entry point (signal listeners that call back into the manager, the   *)
(* sweep calling MaterializeEntity, ...) are composed inside the action as *)
(* operators over a state record; what a listener could observe at the     *)
(* moment of the call is written to the history fields `signals` and       *)
(* `calls`, which describe the last entry point only.                      *)
(*                                                                         *)
(* Not modelled: the EntityTransformDirty tag (EntityReference::           *)
(* OnMarkedDirty), the inspector widgets' layout and the archive framing.  *)
(* The registry holds the entities, the EntityMaterialized tags, the       *)
(* MaterializationStatus components and one storage per component type.    *)
(***************************************************************************)
EXTENDS Integers, Sequences, FiniteSets, TLC

\* ---------------------------------------------------------------- bounds
\* entity indices 0..MaxIndex-1 may be allocated by the registry
MaxIndex == 2
\* versions 0..MaxVersion of the entities in use (a freed slot may be one
\* version further; it is not handed out again)
MaxVersion == 1
\* EntityReference objects ever constructed (identities are never reused)
MaxHandles == 2
\* nodes without an EntityReference ever created by the host
MaxPlain == 1
\* entries of ui_.pendingMaterializations_
MaxUi == 1
\* entities in a snapshot given to SetDataAttr, and the versions they may carry
MaxSnapshot == 1
MaxSnapshotVersion == 0
\* component types known to the program, named 1..MaxTypes in name order
MaxTypes == 2
\* component payloads 0..MaxValue; 0 is the default-constructed value
MaxValue == 1
\* entries of the inspector's component queues together
MaxBatch == 2
\* entries of pendingEntityDecodes_
MaxDecodes == 1
\* entries of pendingEntityDecodes_ where the order of the decodes matters
MaxOrdered == 2

\* ------------------------------------------------------------ vocabulary
\* entt::null
Null == <<-1, 0>>
\* nullptr for EntityReference*
NoRef == 0

Indices == 0..(MaxIndex - 1)
Ids == Indices \X (0..MaxVersion)
Handles == 1..MaxHandles
\* no entity encoding kept
NoBytes == [entity |-> Null, data |-> <<>>, types |-> {}, was |-> <<>>]
\* an entry point that takes no bytes
NoInput == [kind |-> "none", data |-> <<>>, build |-> "debug"]
Types == 1..MaxTypes
Values == 0..MaxValue

SceneNode == <<"scene", 0>>
ContainerNode == <<"container", 0>>
RefNode(h) == <<"ref", h>>
PlainNode(k) == <<"plain", k>>

Put(f, k, v) == [x \in (DOMAIN f) \cup {k} |-> IF x = k THEN v ELSE f[x]]
Drop(f, ks) == [x \in (DOMAIN f) \ ks |-> f[x]]
SwapAt(s, i, j) == [s EXCEPT ![i] = s[j], ![j] = s[i]]

VARIABLES
    packed,                     \* registry_: entity storage, in-use prefix first
    inUse,                      \* registry_: length of the in-use prefix
    materialized,               \* registry_.storage<EntityMaterialized>: id -> handle
    status,                     \* registry_.storage<MaterializationStatus>: id -> BOOLEAN
    entity_,                    \* EntityReference::entity_ of every live handle
    parent,                     \* scene tree: node -> parent node
    pendingEntitiesAdded_,      \* EntityManager::pendingEntitiesAdded_
    registryDirty_,             \* EntityManager::registryDirty_
    synchronizationInProgress_, \* EntityManager::synchronizationInProgress_
    suppressComponentEvents_,   \* EntityManager::suppressComponentEvents_
    pendingMaterializations_,   \* EntityManager::ui_.pendingMaterializations_
    components,                 \* registry_.storage<T> of every type: id -> payload
    componentFactories_,        \* EntityManager::componentFactories_, by type name
    componentTypesSorted_,      \* EntityManager::componentTypesSorted_
    pendingEntityDecodes_,      \* EntityManager::pendingEntityDecodes_
    pendingCreateComponents_,   \* EntityManager::ui_.pendingCreateComponents_
    pendingDestroyComponents_,  \* EntityManager::ui_.pendingDestroyComponents_
    pendingEditComponents_,     \* EntityManager::ui_.pendingEditComponents_
    pendingEditActions_,        \* DefaultEntityComponentFactory::pendingEditActions_
    input,                      \* history: the bytes given to the last entry point
    held,                       \* the entity encoding the host keeps, and of what
    nextRef,                    \* identity of the next EntityReference constructed
    nextPlain,                  \* identity of the next plain node created
    aborted,                    \* a failed assertion ended the process
    signals,                    \* history: signal emissions of the last entry point
    calls,                      \* history: nested Synchronize calls of the last entry point
    trail,                      \* history: the last entry points, newest last
    trailLen                    \* how many entry points the history keeps

vars == <<packed, inUse, materialized, status, entity_, parent,
          pendingEntitiesAdded_, registryDirty_, synchronizationInProgress_,
          suppressComponentEvents_, pendingMaterializations_, components,
          componentFactories_, componentTypesSorted_, pendingEntityDecodes_,
          pendingCreateComponents_, pendingDestroyComponents_,
          pendingEditComponents_, pendingEditActions_, input, held, nextRef, nextPlain,
          aborted, signals, calls, trail, trailLen>>

\* The program state as one record, so that nested calls compose.
St ==
    [ packed |-> packed, inUse |-> inUse, materialized |-> materialized,
      status |-> status, entity_ |-> entity_, parent |-> parent,
      pendingEntitiesAdded_ |-> pendingEntitiesAdded_,
      registryDirty_ |-> registryDirty_,
      synchronizationInProgress_ |-> synchronizationInProgress_,
      suppressComponentEvents_ |-> suppressComponentEvents_,
      pendingMaterializations_ |-> pendingMaterializations_,
      components |-> components,
      componentFactories_ |-> componentFactories_,
      componentTypesSorted_ |-> componentTypesSorted_,
      pendingEntityDecodes_ |-> pendingEntityDecodes_,
      pendingCreateComponents_ |-> pendingCreateComponents_,
      pendingDestroyComponents_ |-> pendingDestroyComponents_,
      pendingEditComponents_ |-> pendingEditComponents_,
      pendingEditActions_ |-> pendingEditActions_,
      nextRef |-> nextRef, nextPlain |-> nextPlain, aborted |-> aborted,
      signals |-> <<>>, calls |-> {}, input |-> NoInput, held |-> held,
      overflow |-> FALSE ]

\* The fields of the program proper (no history, no bookkeeping of the model).
Core(S) ==
    [ packed |-> S.packed, inUse |-> S.inUse, materialized |-> S.materialized,
      status |-> S.status, entity_ |-> S.entity_, parent |-> S.parent,
      pendingEntitiesAdded_ |-> S.pendingEntitiesAdded_,
      registryDirty_ |-> S.registryDirty_,
      synchronizationInProgress_ |-> S.synchronizationInProgress_,
      suppressComponentEvents_ |-> S.suppressComponentEvents_,
      pendingMaterializations_ |-> S.pendingMaterializations_,
      components |-> S.components,
      componentFactories_ |-> S.componentFactories_,
      componentTypesSorted_ |-> S.componentTypesSorted_,
      pendingEntityDecodes_ |-> S.pendingEntityDecodes_,
      pendingCreateComponents_ |-> S.pendingCreateComponents_,
      pendingDestroyComponents_ |-> S.pendingDestroyComponents_,
      pendingEditComponents_ |-> S.pendingEditComponents_,
      pendingEditActions_ |-> S.pendingEditActions_ ]

\* ------------------------------------------------ entt registry primitives
\* registry_.valid(e)
Valid(S, e) == \E i \in 1..S.inUse : S.packed[i] = e

\* position of the slot that holds index ix (every allocated index has one)
PosOf(S, ix) == CHOOSE i \in 1..Len(S.packed) : S.packed[i][1] = ix

\* registry_.storage<entt::entity>().each(): in-use entities, last created first
Each(S) == [i \in 1..S.inUse |-> S.packed[S.inUse + 1 - i]]

\* registry_.create(): recycle the next free slot, else allocate a new index
CreateFresh(S) ==
    IF S.inUse < Len(S.packed)
    THEN IF S.packed[S.inUse + 1][2] > MaxVersion
         THEN [S |-> [S EXCEPT !.overflow = TRUE], e |-> Null]
         ELSE [S |-> [S EXCEPT !.inUse = @ + 1], e |-> S.packed[S.inUse + 1]]
    ELSE IF Len(S.packed) >= MaxIndex
    THEN [S |-> [S EXCEPT !.overflow = TRUE], e |-> Null]
    ELSE [S |-> [S EXCEPT !.packed = Append(@, <<Len(S.packed), 0>>), !.inUse = @ + 1],
          e |-> <<Len(S.packed), 0>>]

CreateHint_Fresh(S, hint) == CreateFresh(S)

\* registry_.create(hint): the hint is honoured unless its index is in use
CreateHint(S, hint) ==
    IF hint = Null THEN CreateFresh(S)
    ELSE IF hint[1] >= Len(S.packed)
    THEN \* index never allocated: allocate the indices below it as free slots
         LET filler == [k \in 1..(hint[1] - Len(S.packed)) |-> <<Len(S.packed) + k - 1, 0>>]
             grown == Append(S.packed \o filler, hint)
         IN  [S |-> [S EXCEPT !.packed = SwapAt(grown, Len(grown), S.inUse + 1),
                               !.inUse = @ + 1],
              e |-> hint]
    ELSE LET p == PosOf(S, hint[1]) IN
         IF p <= S.inUse
         THEN CreateFresh(S)
         ELSE [S |-> [S EXCEPT !.packed = SwapAt([@ EXCEPT ![p] = hint], p, S.inUse + 1),
                               !.inUse = @ + 1],
               e |-> hint]

\* the entity storage's part of registry_.destroy: bump the version, free the slot
PopAt(S, p) ==
    LET e == S.packed[p] IN
    [S EXCEPT !.packed = SwapAt([@ EXCEPT ![p] = <<e[1], e[2] + 1>>], p, S.inUse),
              !.inUse = @ - 1]

\* every pool's remove(e)
RemoveFromPools(S, e) ==
    [S EXCEPT !.materialized = Drop(@, {e}), !.status = Drop(@, {e}),
              !.components = [t \in DOMAIN @ |-> Drop(@[t], {e})]]

\* registry_.destroy(e) of a valid entity
Destroy(S, e) == PopAt(RemoveFromPools(S, e), PosOf(S, e[1]))

RECURSIVE PopAll(_)
PopAll(S) == IF S.inUse = 0 \/ S.overflow THEN S ELSE PopAll(PopAt(S, S.inUse))

\* registry_.clear(): every pool is emptied and every entity destroyed
Clear(S) ==
    PopAll([S EXCEPT !.materialized = <<>>, !.status = <<>>,
                     !.components = [t \in DOMAIN @ |-> <<>>]])

\* ------------------------------------------------------------- scene tree
Nodes(S) == DOMAIN S.parent
LiveRefs(S) == DOMAIN S.entity_

RECURSIVE Under(_, _, _)
\* node c is a proper descendant of node n
Under(S, c, n) ==
    /\ c \in Nodes(S)
    /\ \/ S.parent[c] = n
       \/ Under(S, S.parent[c], n)

SubTree(S, n) == {n} \cup {c \in Nodes(S) : Under(S, c, n)}
RefsIn(S, ns) == {h \in LiveRefs(S) : RefNode(h) \in ns}

\* --------------------------------------------------------------- manager
\* EntityToReference as it would be if the tag's weak pointer were never followed
EntityToReference_NeverFound(S, e) == NoRef

\* EntityManager::EntityToReference: the tag's weak pointer, nullptr when the
\* entity is null, carries no tag, or the tag's handle has expired
EntityToReference(S, e) ==
    IF e # Null /\ e \in DOMAIN S.materialized /\ S.materialized[e] \in LiveRefs(S)
    THEN S.materialized[e]
    ELSE NoRef

\* registry_.any_of<EntityMaterialized>(e), the body of IsEntityMaterialized
IsEntityMaterialized(S, e) == e \in DOMAIN S.materialized

\* a failed assertion, or undefined behaviour (a dangling pointer, an invalid
\* entity handed to the registry): the process ends, or what it does from here
\* on is not determined by the code; nothing after this point is modelled
Abort(S) == [S EXCEPT !.aborted = TRUE]

\* OnComponentAdded as it would be without the suppression flag
OnComponentAdded_Unsuppressed(S, h) ==
    [S EXCEPT !.pendingEntitiesAdded_ = @ \cup {h}]

\* EntityManager::OnComponentAdded
OnComponentAdded(S, h) ==
    IF S.suppressComponentEvents_ THEN S
    ELSE [S EXCEPT !.pendingEntitiesAdded_ = @ \cup {h}]

\* registry_.destroy(e) of an entity that is not valid, with assertions compiled
\* out: the pools compare versions and keep their entries; the entity storage
\* looks the slot up by index only and frees whatever lives there
DestroyInvalid(S, e) ==
    IF e[1] \notin Indices \/ e[1] >= Len(S.packed) THEN Abort(S)
    ELSE LET p == PosOf(S, e[1]) IN
         IF p <= S.inUse THEN PopAt(S, p) ELSE S

\* OnComponentRemoved as it would be if it left the registry alone
OnComponentRemoved_KeepsEntity(S, env, h) ==
    IF S.aborted \/ S.suppressComponentEvents_ THEN S
    ELSE [S EXCEPT !.pendingEntitiesAdded_ = @ \ {h}]

\* EntityManager::OnComponentRemoved
OnComponentRemoved(S, env, h) ==
    IF S.aborted \/ S.suppressComponentEvents_ THEN S
    ELSE LET S1 == [S EXCEPT !.pendingEntitiesAdded_ = @ \ {h}]
             entity == S.entity_[h]
         IN  IF entity = Null THEN S1
             ELSE IF Valid(S1, entity) THEN Destroy(S1, entity)
             ELSE IF env.build = "debug" THEN Abort(S1)
             ELSE DestroyInvalid(S1, entity)

\* NewRef as it would be if a destroyed handle's identity were handed out again
NewRef_Reused(S) ==
    LET free == {h \in 1..MaxHandles : h \notin DOMAIN S.entity_} IN
    IF free = {} THEN S.nextRef ELSE CHOOSE h \in free : \A k \in free : h <= k

\* MakeShared<EntityReference> / the host's CreateComponent: a new object,
\* whose identity was never used before
NewRef(S) == S.nextRef

\* A node with a new EntityReference is added below node p by the host; the
\* "Entity" attribute is loaded into it (EntityReference::SetEntityAttr).
AttachRef(S, p, preset) ==
    IF S.nextRef > MaxHandles THEN [S EXCEPT !.overflow = TRUE]
    ELSE LET h == NewRef(S) IN
         OnComponentAdded(
             [S EXCEPT !.entity_ = Put(@, h, preset),
                       !.parent = Put(@, RefNode(h), p),
                       !.nextRef = h + 1], h)

\* the handles of ns whose node has no other handle of ns above it
TopRefs(S, hs) ==
    {h \in hs : \A k \in hs : ~Under(S, RefNode(h), RefNode(k))}
MinOf(hs) == CHOOSE h \in hs : \A k \in hs : h <= k

RECURSIVE NotifyRemoved(_, _, _)
\* the removal observer runs for every handle of a removed subtree, parents first
NotifyRemoved(S, env, hs) ==
    IF hs = {} THEN S
    ELSE LET h == MinOf(TopRefs(S, hs)) IN
         NotifyRemoved(OnComponentRemoved(S, env, h), env, hs \ {h})

\* Node::Remove: the node and everything below it leave the scene; the handles
\* there are destroyed with their nodes
RemoveNode(S, env, n) ==
    LET gone == SubTree(S, n)
        hs == RefsIn(S, gone)
        S1 == NotifyRemoved(S, env, hs)
    IN  [S1 EXCEPT !.parent = Drop(@, gone), !.entity_ = Drop(@, hs)]

\* FlattenEntityHierarchy: Node::FindComponents<EntityReference> searches the node
\* and its children recursively, so every handle below the node is reparented
FlattenEntityHierarchy(S, h) ==
    LET node == RefNode(h)
        parentNode == S.parent[node]
        childrenReferences == RefsIn(S, SubTree(S, node))
    IN  [S EXCEPT !.parent =
            [c \in DOMAIN @ |->
                IF c # node /\ c \in {RefNode(k) : k \in childrenReferences}
                THEN parentNode ELSE @[c]]]

\* the reentrancy guard as it would be if the flag were never read, or never
\* cleared
SynchronizeGuard_Off(S) == FALSE
SynchronizeGuard_Stuck(S) == TRUE

\* the reentrancy guard of Synchronize (EntityManager.cpp:352-353)
SynchronizeGuard(S) == S.synchronizationInProgress_

\* DetachNode as it would be without clearing the binding and without
\* suppressing the observers
DetachNode_Unsuppressed(S, env, h) == RemoveNode(S, env, RefNode(h))

\* EntityManager.cpp:494-498: the binding is cleared and the node removed with
\* the observers suppressed
DetachNode(S, env, h) ==
    LET S1 == [S EXCEPT !.entity_[h] = Null, !.suppressComponentEvents_ = TRUE] IN
    [RemoveNode(S1, env, RefNode(h)) EXCEPT !.suppressComponentEvents_ = FALSE]

RECURSIVE Synchronize(_, _)
RECURSIVE MaterializeEntity(_, _, _)
RECURSIVE DematerializeEntity(_, _, _)
RECURSIVE SweepFrom(_, _, _, _)

\* The history of a Synchronize called from inside another entry point: S is
\* the state at the call, T the state at its return; it keeps whether the call
\* changed any field of the program, and whether it left no handle of the
\* queue unprocessed and the registry not dirty
LogCall(S, T, env, sig) ==
    [T EXCEPT !.calls = @ \cup
        {[sig |-> sig, listener |-> env.listener,
          inProgress |-> S.synchronizationInProgress_,
          changed |-> Core(T) # Core(S),
          drained |-> \/ T.aborted \/ T.overflow
                      \/ /\ ~T.registryDirty_
                         /\ S.pendingEntitiesAdded_ \cap T.pendingEntitiesAdded_ = {},
          queuesChanged |->
              \/ T.pendingEntitiesAdded_ # S.pendingEntitiesAdded_
              \/ T.pendingEntityDecodes_ # S.pendingEntityDecodes_
              \/ <<T.packed, T.inUse, T.materialized, T.status, T.components>>
                     # <<S.packed, S.inUse, S.materialized, S.status, S.components>>]}]

NestedSynchronize(S, env, sig) == LogCall(S, Synchronize(S, env), env, sig)

\* The history of an emission: what a listener sees when the signal reaches it
LogSignal(S, sig, entity, h) ==
    [S EXCEPT !.signals = Append(@,
        [sig |-> sig, entity |-> entity, ref |-> h,
         inProgress |-> S.synchronizationInProgress_,
         dirty |-> S.registryDirty_,
         pending |-> S.pendingEntitiesAdded_,
         decodes |-> Len(S.pendingEntityDecodes_),
         status |-> entity \in DOMAIN S.status /\ S.status[entity],
         tagged |-> IsEntityMaterialized(S, entity),
         tagRef |-> EntityToReference(S, entity),
         refEntity |-> IF h \in LiveRefs(S) THEN S.entity_[h] ELSE Null,
         inScene |-> RefNode(h) \in Nodes(S),
         below |-> {c \in Nodes(S) : Under(S, c, RefNode(h))}])]

\* A listener of OnEntityMaterialized / OnEntityDematerialized.  What it does is
\* the host's choice: nothing, call Synchronize, or add an EntityReference to the
\* scene (whose ApplyAttributes calls Synchronize, EntityReference.cpp:42-47).
Listener(S, env, sig) ==
    IF env.listener = "none" \/ S.overflow THEN S
    ELSE NestedSynchronize(S, env, sig)

Emit(S, env, sig, entity, h) ==
    Listener(IF env.listener = "attach"
             THEN AttachRef(LogSignal(S, sig, entity, h), ContainerNode, Null)
             ELSE LogSignal(S, sig, entity, h),
             env, sig)

\* the assertion that closes MaterializeEntity (EntityManager.cpp:476)
MaterializedChecked(S, env, entity) ==
    IF /\ ~S.overflow
       /\ env.build = "debug"
       /\ ~(Valid(S, entity) /\ IsEntityMaterialized(S, entity))
    THEN Abort(S) ELSE S

\* EntityManager::MaterializeEntity
MaterializeEntity(S, env, entity) ==
    IF S.aborted \/ S.overflow THEN S
    ELSE IF EntityToReference(S, entity) # NoRef THEN S
    ELSE IF S.nextRef > MaxHandles THEN [S EXCEPT !.overflow = TRUE]
    ELSE
      LET h == NewRef(S)
          \* CreateChild("Entity"), MakeShared<EntityReference>, SetEntityInternal
          S1 == [S EXCEPT !.parent = Put(@, RefNode(h), ContainerNode),
                          !.entity_ = Put(@, h, entity),
                          !.nextRef = h + 1]
      IN
      IF ~Valid(S1, entity) /\ env.build = "debug" THEN Abort(S1)
      ELSE
        LET S2 == [S1 EXCEPT !.materialized = Put(@, entity, h),
                             !.status = Put(@, entity, TRUE)]
            S3 == [OnComponentAdded([S2 EXCEPT !.suppressComponentEvents_ = TRUE], h)
                       EXCEPT !.suppressComponentEvents_ = FALSE]
        IN  MaterializedChecked(Emit(S3, env, "materialized", entity, h), env, entity)

\* EntityManager.cpp:492-501, after the signal: the hierarchy is flattened, the
\* node removed, the tag removed and the status cleared
RemoveMaterialized(S, env, entity, entityReference) ==
    IF S.aborted \/ S.overflow THEN S
    \* the listener had the handle destroyed: entityReference dangles, and
    \* FlattenEntityHierarchy dereferences it
    ELSE IF entityReference \notin LiveRefs(S) THEN Abort(S)
    ELSE [DetachNode(FlattenEntityHierarchy(S, entityReference), env, entityReference)
             EXCEPT !.materialized = Drop(@, {entity}),
                    !.status = Put(@, entity, FALSE)]

\* DematerializeEntity as it would be with the signal emitted at the end
DematerializeEntity_EmitsLast(S, env, entity) ==
    IF S.aborted \/ S.overflow THEN S
    ELSE IF ~IsEntityMaterialized(S, entity) THEN S
    ELSE IF S.materialized[entity] \notin LiveRefs(S) THEN Abort(S)
    ELSE Emit(RemoveMaterialized(S, env, entity, S.materialized[entity]),
              env, "dematerializing", entity, S.materialized[entity])

\* EntityManager::DematerializeEntity
DematerializeEntity(S, env, entity) ==
    IF S.aborted \/ S.overflow THEN S
    ELSE IF ~Valid(S, entity) /\ env.build = "debug" THEN Abort(S)
    ELSE IF ~IsEntityMaterialized(S, entity) THEN S
    ELSE IF S.materialized[entity] \notin LiveRefs(S) THEN Abort(S)
    ELSE RemoveMaterialized(
             Emit(S, env, "dematerializing", entity, S.materialized[entity]),
             env, entity, S.materialized[entity])

\* EntityManager::EnsureEntitiesMaterialized, from position i of the entities
\* the iteration started with
SweepFrom(S, env, entities, i) ==
    IF i > Len(entities) \/ S.aborted \/ S.overflow THEN S
    ELSE
      LET entity == entities[i]
          hasStatus == entity \in DOMAIN S.status
          data == entity \in DOMAIN S.materialized
          S1 == IF ~data /\ hasStatus /\ S.status[entity]
                THEN MaterializeEntity(S, env, entity)
                ELSE IF data /\ (~hasStatus \/ ~S.status[entity])
                THEN DematerializeEntity(S, env, entity)
                ELSE S
      IN  SweepFrom(S1, env, entities, i + 1)

EnsureEntitiesMaterialized(S, env) == SweepFrom(S, env, Each(S), 1)

\* ---- component factories and the encoding of one entity
\* EntityManager::EnsureComponentTypesSorted
EnsureComponentTypesSorted(S) ==
    LET q == S.componentFactories_
        Before(t) == Cardinality({i \in DOMAIN q : q[i] < t})
        Upto(t) == Cardinality({i \in DOMAIN q : q[i] <= t})
    IN  IF S.componentTypesSorted_ THEN S
        ELSE [S EXCEPT !.componentFactories_ =
                           [k \in 1..Len(q) |->
                               CHOOSE t \in Types : Before(t) < k /\ k <= Upto(t)],
                       !.componentTypesSorted_ = TRUE]

\* EntityManager::AddComponentType
AddComponentType(S, name) ==
    [S EXCEPT !.componentFactories_ = Append(@, name), !.componentTypesSorted_ = FALSE]

FindComponentType_Any(S, typeName) == TRUE

\* EntityManager::FindComponentType: whether a factory of that name is registered
FindComponentType(S, typeName) ==
    \E i \in DOMAIN S.componentFactories_ : S.componentFactories_[i] = typeName

\* DefaultEntityComponentFactory<T>::HasComponent
HasComponent(S, type, entity) == entity \in DOMAIN S.components[type]

\* EntityManager::SerializeStandaloneEntity on output: one entry per factory
SerializeStandaloneEntityOut(S, entity) ==
    [k \in DOMAIN S.componentFactories_ |->
        LET type == S.componentFactories_[k] IN
        IF HasComponent(S, type, entity)
        THEN [type |-> type, exists |-> TRUE, value |-> S.components[type][entity]]
        ELSE [type |-> type, exists |-> FALSE]]

\* EntityManager::EncodeEntity
EncodeEntity(S, entity) ==
    IF ~Valid(S, entity) THEN [S |-> S, data |-> <<>>]
    ELSE LET S1 == EnsureComponentTypesSorted(S) IN
         [S |-> S1, data |-> SerializeStandaloneEntityOut(S1, entity)]

\* DefaultEntityComponentFactory<T>::CreateComponent: a default-constructed T
CreateComponent(S, type, entity) == [S EXCEPT !.components[type] = Put(@, entity, 0)]

\* DefaultEntityComponentFactory<T>::DestroyComponent
DestroyComponent(S, type, entity) == [S EXCEPT !.components[type] = Drop(@, {entity})]

SerializeComponentIn_Unread(S, type, entity, value) == S

\* DefaultEntityComponentFactory<T>::SerializeComponent on input
SerializeComponentIn(S, type, entity, value) ==
    [S EXCEPT !.components[type] = Put(@, entity, value)]

\* EntityManager.cpp:685-711: one component entry of an entity on input
DecodeEntry(S, entity, entry) ==
    IF ~FindComponentType(S, entry.type) THEN S
    ELSE IF entry.exists
    THEN SerializeComponentIn(
             IF HasComponent(S, entry.type, entity) THEN S
             ELSE CreateComponent(S, entry.type, entity),
             entry.type, entity, entry.value)
    ELSE IF HasComponent(S, entry.type, entity)
    THEN DestroyComponent(S, entry.type, entity)
    ELSE S

RECURSIVE SerializeStandaloneEntityIn(_, _, _, _)
\* EntityManager::SerializeStandaloneEntity on input
SerializeStandaloneEntityIn(S, entity, data, i) ==
    IF i > Len(data) THEN S
    ELSE SerializeStandaloneEntityIn(DecodeEntry(S, entity, data[i]), entity, data, i + 1)

\* EntityManager::DecodeEntity
DecodeEntity(S, entity, data) ==
    IF ~Valid(S, entity) THEN S
    ELSE SerializeStandaloneEntityIn(EnsureComponentTypesSorted(S), entity, data, 1)

RECURSIVE DecodeFrom(_, _, _)
\* EntityManager.cpp:379-383: the queued decodes whose handle is alive and names
\* an entity
DecodeFrom(S, q, i) ==
    IF i > Len(q) THEN S
    ELSE LET entityReference == q[i][1]
             data == q[i][2]
         IN  DecodeFrom(
                 IF entityReference \in LiveRefs(S) /\ S.entity_[entityReference] # Null
                 THEN DecodeEntity(S, S.entity_[entityReference], data)
                 ELSE S,
                 q, i + 1)

\* EntityManager.cpp:379-384
DecodePending(S) ==
    IF S.aborted \/ S.overflow THEN S
    ELSE [DecodeFrom(S, S.pendingEntityDecodes_, 1) EXCEPT !.pendingEntityDecodes_ = <<>>]

\* QueueDecodeEntity as it would be if it decoded at once
QueueDecodeEntity_Immediate(S, entityReference, data) ==
    DecodeEntity(S, S.entity_[entityReference], data)

\* EntityManager::QueueDecodeEntity
QueueDecodeEntity(S, entityReference, data) ==
    [S EXCEPT !.pendingEntityDecodes_ = Append(@, <<entityReference, data>>)]

\* EntityReference::SetDataAttr
SetReferenceDataAttr(S, entityReference, data) ==
    IF S.entity_[entityReference] # Null
    THEN QueueDecodeEntity(S, entityReference, data)
    ELSE S

\* one iteration of the loop over pendingEntitiesAdded_ (EntityManager.cpp:356-376)
SyncOne(S, env, entityReference) ==
    IF S.aborted \/ S.overflow THEN S
    ELSE IF entityReference \notin LiveRefs(S) THEN Abort(S)
    ELSE
      LET entityHint == S.entity_[entityReference] IN
      IF EntityToReference(S, entityHint) = entityReference THEN S
      ELSE
        LET c == IF Valid(S, entityHint) /\ EntityToReference(S, entityHint) = NoRef
                 THEN [S |-> S, e |-> entityHint]
                 ELSE CreateHint(S, entityHint)
            entity == c.e
            S1 == [c.S EXCEPT !.entity_[entityReference] = entity]
        IN
        IF S1.overflow THEN S1
        ELSE IF entity \in DOMAIN S1.materialized /\ env.build = "debug" THEN Abort(S1)
        ELSE [S1 EXCEPT !.materialized = Put(@, entity, entityReference),
                        !.status = Put(@, entity, TRUE)]

\* the element of a one-element set: the state a statement leaves, computed
\* once, for the statement that follows it
Only(s) == CHOOSE x \in s : TRUE

RECURSIVE SyncAll(_, _, _)
\* the handles of hs in the iteration order of the unordered set (env.rank)
SyncAll(S, env, hs) ==
    IF hs = {} THEN S
    ELSE LET h == CHOOSE x \in hs : \A y \in hs : env.rank[x] <= env.rank[y] IN
         Only({SyncAll(T, env, hs \ {h}) : T \in {SyncOne(S, env, h)}})

ClearPending_Kept(S) == S

\* EntityManager.cpp:377: pendingEntitiesAdded_.clear()
ClearPending(S) ==
    IF S.aborted THEN S ELSE [S EXCEPT !.pendingEntitiesAdded_ = {}]

SweepIfDirty_FlagKept(S, env) ==
    IF S.registryDirty_ /\ ~S.aborted THEN EnsureEntitiesMaterialized(S, env) ELSE S

\* EntityManager.cpp:386-390
SweepIfDirty(S, env) ==
    IF S.registryDirty_ /\ ~S.aborted
    THEN EnsureEntitiesMaterialized([S EXCEPT !.registryDirty_ = FALSE], env)
    ELSE S

\* EndPass as it would be if the pass left synchronizationInProgress_ set
EndPass_FlagKept(S) == S

\* EntityManager.cpp:392
EndPass(S) ==
    IF S.aborted THEN S ELSE [S EXCEPT !.synchronizationInProgress_ = FALSE]

\* the steps of a pass as they would be with the decodes applied first
PassSteps_DecodeFirst(S, env, hs) ==
    SweepIfDirty(ClearPending(SyncAll(DecodePending(S), env, hs)), env)

\* EntityManager.cpp:356-390: the pending handles, the pending decodes, the sweep
PassSteps(S, env, hs) ==
    Only({SweepIfDirty(decoded, env) :
          decoded \in {DecodePending(cleared) :
                       cleared \in {ClearPending(synced) :
                                    synced \in {SyncAll(S, env, hs)}}}})

\* EntityManager::Synchronize
Synchronize(S, env) ==
    IF S.aborted \/ S.overflow THEN S
    ELSE IF SynchronizeGuard(S) THEN S
    ELSE Only({EndPass(T) :
               T \in {PassSteps([S EXCEPT !.synchronizationInProgress_ = TRUE], env,
                                S.pendingEntitiesAdded_)}})

\* ------------------------------------------------------- registry load
Empty == [x \in {} |-> FALSE]

\* static_cast<unsigned>(entity): 20 bits of index below 12 bits of version
EntityData(e) == e[1] + e[2] * (2 ^ 20)

ToEntity_IndexOnly(entityData) == <<entityData % (2 ^ 20), 0>>

\* static_cast<entt::entity>(entityData)
ToEntity(entityData) == <<entityData % (2 ^ 20), entityData \div (2 ^ 20)>>

\* ea::sort with EntityIndexComparator: the ids of es in ascending index
SortByIndex(es) ==
    LET Key(e) == e[1] * (MaxVersion + 3) + e[2]
        Nth(k) == CHOOSE e \in es : Cardinality({d \in es : Key(d) < Key(e)}) = k - 1
    IN  [k \in 1..Cardinality(es) |-> Nth(k)]

\* EntityManager::EntityIndexComparator
EntityIndexComparator(lhs, rhs) == lhs[1] < rhs[1]

\* sorted with e put in before the first element it compares less than
InsertSorted(sorted, e) ==
    LET before == {i \in DOMAIN sorted : ~EntityIndexComparator(e, sorted[i])}
        k == Cardinality(before)
    IN  SubSeq(sorted, 1, k) \o <<e>> \o SubSeq(sorted, k + 1, Len(sorted))

SortEntities_Unsorted(entities) == entities

RECURSIVE SortEntities(_)
\* ea::sort(entities.begin(), entities.end(), EntityIndexComparator{})
SortEntities(entities) ==
    IF entities = <<>> THEN <<>>
    ELSE InsertSorted(SortEntities(SubSeq(entities, 1, Len(entities) - 1)),
                      entities[Len(entities)])

\* the sequences that list every element of es once
Enumerations(es) ==
    {f \in [1..Cardinality(es) -> es] : \A a, b \in DOMAIN f : a # b => f[a] # f[b]}

\* registry.view<T>(): the entities of one storage in the order of its packed
\* array, which the model does not keep; some order
View(pool) == CHOOSE view \in Enumerations(DOMAIN pool) : TRUE

\* EntityManager::SerializeEntities on output
SerializeEntitiesOut(S) ==
    LET entities == SortEntities(Each(S)) IN
    [k \in DOMAIN entities |-> EntityData(entities[k])]

\* EntityManager::SerializeComponents<T> on output: the elements of one storage
SerializeComponentsOut(pool) ==
    LET entities == SortEntities(View(pool)) IN
    [k \in DOMAIN entities |->
        [entity |-> EntityData(entities[k]), value |-> pool[entities[k]]]]

\* EntityManager::SerializeUserComponents on output: one block per factory
SerializeUserComponentsOut(S) ==
    [k \in DOMAIN S.componentFactories_ |->
        [type |-> S.componentFactories_[k],
         components |-> SerializeComponentsOut(S.components[S.componentFactories_[k]])]]

\* EntityManager::SerializeRegistry on output
SerializeRegistryOut(S) ==
    LET S1 == EnsureComponentTypesSorted(S) IN
    [S |-> S1,
     data |-> [entities |-> SerializeEntitiesOut(S1),
               status |-> SerializeComponentsOut(S1.status),
               storages |-> SerializeUserComponentsOut(S1)]]

\* EntityManager::GetDataAttr
GetDataAttr(S) == SerializeRegistryOut(S)

\* The snapshots a load may be given: what GetDataAttr writes for a registry
\* with the entities ver, the MaterializationStatus st and no component type
SnapshotOf(ver, st) ==
    LET present == {<<ix, ver[ix]>> : ix \in {k \in Indices : ver[k] >= 0}}
        entities == SortByIndex(present)
    IN  [entities |-> [k \in DOMAIN entities |-> EntityData(entities[k])],
         status |-> SerializeComponentsOut(
                        [e \in {d \in present : st[d[1]] # "none"} |-> st[e[1]] = "true"]),
         storages |-> <<>>]

Snapshots ==
    {SnapshotOf(ver, st) :
        ver \in {v \in [Indices -> -1..MaxSnapshotVersion] :
                    Cardinality({ix \in Indices : v[ix] >= 0}) <= MaxSnapshot},
        st \in [Indices -> {"none", "true", "false"}]}

RECURSIVE LoadEntities(_, _, _)
\* EntityManager::SerializeEntities on input
LoadEntities(S, entities, i) ==
    IF i > Len(entities) \/ S.overflow THEN S
    ELSE LoadEntities(CreateHint(S, ToEntity(entities[i])).S, entities, i + 1)

\* EntityManager::SerializeComponents<T> on input: emplace_or_replace of every
\* element in turn, the later of two elements of one entity winning
SerializeComponentsIn(pool, elements) ==
    LET named == {ToEntity(elements[i].entity) : i \in DOMAIN elements}
        LastOf(e) == CHOOSE i \in DOMAIN elements :
                         /\ ToEntity(elements[i].entity) = e
                         /\ \A j \in DOMAIN elements :
                                ToEntity(elements[j].entity) = e => j <= i
    IN  [e \in (DOMAIN pool) \cup named |->
            IF e \in named THEN elements[LastOf(e)].value ELSE pool[e]]

\* registry.emplace_or_replace asserts the entity valid
ElementsValid(S, env, elements) ==
    \/ env.build = "release"
    \/ \A i \in DOMAIN elements : Valid(S, ToEntity(elements[i].entity))

\* EntityManager::SerializeComponents<MaterializationStatus> on input
LoadStatus(S, env, elements) ==
    IF ~ElementsValid(S, env, elements) THEN Abort(S)
    ELSE [S EXCEPT !.status = SerializeComponentsIn(@, elements)]

\* EntityManager.cpp:646-658: one storage block on input
LoadStorage(S, env, block) ==
    IF ~FindComponentType(S, block.type) THEN S
    ELSE IF ~ElementsValid(S, env, block.components) THEN Abort(S)
    ELSE [S EXCEPT !.components[block.type] = SerializeComponentsIn(@, block.components)]

RECURSIVE LoadStorages(_, _, _, _)
\* EntityManager::SerializeUserComponents on input
LoadStorages(S, env, storages, i) ==
    IF i > Len(storages) \/ S.aborted THEN S
    ELSE LoadStorages(LoadStorage(S, env, storages[i]), env, storages, i + 1)

Reattach_Dropped(S, env, refs) == S

RECURSIVE Reattach(_, _, _)
\* EntityManager.cpp:594-602: the captured tags are put back on the entities
\* their handles name, when those are valid in the loaded registry
Reattach(S, env, refs) ==
    IF refs = {} \/ S.aborted THEN S
    ELSE LET h == MinOf(refs) IN
         IF h \notin LiveRefs(S) THEN Abort(S)
         ELSE LET entity == S.entity_[h] IN
              IF ~Valid(S, entity) THEN Reattach(S, env, refs \ {h})
              ELSE IF entity \in DOMAIN S.materialized /\ env.build = "debug"
              THEN Abort(S)
              ELSE Reattach([S EXCEPT !.materialized = Put(@, entity, h)], env, refs \ {h})

\* EntityManager::SerializeRegistry on input
SerializeRegistryIn(S, env, snapshot) ==
    LET entityReferences == {S.materialized[e] : e \in DOMAIN S.materialized}
        S1 == Clear(S)
        S2 == LoadEntities(S1, snapshot.entities, 1)
        S3 == IF S2.overflow THEN S2 ELSE LoadStatus(S2, env, snapshot.status)
        S4 == IF S3.overflow \/ S3.aborted THEN S3
              ELSE LoadStorages(EnsureComponentTypesSorted(S3), env, snapshot.storages, 1)
    IN  IF S4.overflow \/ S4.aborted THEN S4 ELSE Reattach(S4, env, entityReferences)

\* SetDataAttr as it would be without raising the dirty flag
SetDataAttr_NotDirty(S, env, snapshot) == SerializeRegistryIn(S, env, snapshot)

\* EntityManager::SetDataAttr
SetDataAttr(S, env, snapshot) ==
    LET S1 == SerializeRegistryIn(S, env, snapshot) IN
    IF S1.aborted THEN S1 ELSE [S1 EXCEPT !.registryDirty_ = TRUE]

\* ------------------------------------------------------------ inspector
RECURSIVE CommitMaterializations(_, _, _, _)
\* EntityManager.cpp:259-270
CommitMaterializations(S, env, q, i) ==
    IF i > Len(q) \/ S.aborted \/ S.overflow THEN S
    ELSE LET entity == q[i][1]
             isMaterialized == q[i][2]
         IN  CommitMaterializations(
                 IF isMaterialized THEN MaterializeEntity(S, env, entity)
                 ELSE DematerializeEntity(S, env, entity),
                 env, q, i + 1)

\* EntityManager::CommitActions
ClearMaterializations(S) ==
    IF S.aborted THEN S ELSE [S EXCEPT !.pendingMaterializations_ = <<>>]

RECURSIVE CommitCreateComponents(_, _, _)
\* EntityManager.cpp:272-286
CommitCreateComponents(S, q, i) ==
    IF i > Len(q) THEN [S EXCEPT !.pendingCreateComponents_ = <<>>]
    ELSE LET entity == q[i][1]
             factory == q[i][2]
         IN  CommitCreateComponents(
                 IF ~Valid(S, entity) \/ HasComponent(S, factory, entity) THEN S
                 ELSE CreateComponent(S, factory, entity),
                 q, i + 1)

RECURSIVE CommitDestroyComponents(_, _, _)
\* EntityManager.cpp:288-302
CommitDestroyComponents(S, q, i) ==
    IF i > Len(q) THEN [S EXCEPT !.pendingDestroyComponents_ = <<>>]
    ELSE LET entity == q[i][1]
             factory == q[i][2]
         IN  CommitDestroyComponents(
                 IF ~Valid(S, entity) \/ ~HasComponent(S, factory, entity) THEN S
                 ELSE DestroyComponent(S, factory, entity),
                 q, i + 1)

RECURSIVE FactoryCommitActions(_, _, _, _)
\* DefaultEntityComponentFactory<T>::CommitActions; registry.replace of a
\* component the entity does not have is a failed assertion or worse
FactoryCommitActions(S, type, q, i) ==
    IF S.aborted THEN S
    ELSE IF i > Len(q) THEN [S EXCEPT !.pendingEditActions_[type] = <<>>]
    ELSE LET action == q[i] IN
         FactoryCommitActions(
             IF ~Valid(S, action.entity_) THEN S
             ELSE IF ~HasComponent(S, type, action.entity_) THEN Abort(S)
             ELSE [S EXCEPT !.components[type] = Put(@, action.entity_, action.newValue_)],
             type, q, i + 1)

RECURSIVE CommitEditComponents(_, _, _)
\* EntityManager.cpp:304-310
CommitEditComponents(S, q, i) ==
    IF S.aborted THEN S
    ELSE IF i > Len(q) THEN [S EXCEPT !.pendingEditComponents_ = <<>>]
    ELSE CommitEditComponents(
             FactoryCommitActions(S, q[i], S.pendingEditActions_[q[i]], 1), q, i + 1)

\* EntityManager.cpp:272-310: the component queues, after the materializations
CommitComponents(S) ==
    IF S.aborted \/ S.overflow THEN S
    ELSE LET S1 == CommitCreateComponents(S, S.pendingCreateComponents_, 1)
             S2 == CommitDestroyComponents(S1, S1.pendingDestroyComponents_, 1)
         IN  CommitEditComponents(S2, S2.pendingEditComponents_, 1)

CommitActions(S, env) ==
    CommitComponents(
        ClearMaterializations(CommitMaterializations(S, env, S.pendingMaterializations_, 1)))

\* EntityManager::RenderEntityInspector, the user clicking nothing
RenderEntityInspector(S, entity) == EnsureComponentTypesSorted(S)

\* EntityManager::RenderEntityInspector, the user picking factory in the
\* "Add EnTT Component" menu, whose items are enabled for absent components
RenderCreateComponent(S, entity, factory) ==
    [EnsureComponentTypesSorted(S) EXCEPT
        !.pendingCreateComponents_ = Append(@, <<entity, factory>>)]

\* EntityManager::RenderExistingComponents, the user pressing the remove
\* button of the component of factory
RenderRemoveComponent(S, entity, factory) ==
    [EnsureComponentTypesSorted(S) EXCEPT
        !.pendingDestroyComponents_ = Append(@, <<entity, factory>>)]

RestoreBackup_Skipped(S, entity, factory, backup) == S

\* EntityManager.h:332: component = backup
RestoreBackup(S, entity, factory, backup) ==
    [S EXCEPT !.components[factory][entity] = backup]

\* DefaultEntityComponentFactory<T>::RenderUI returning true: the component's
\* form edits the component in place; the edited value is kept as a
\* PendingEditAction and the component gets its old value back
RenderUI(S, entity, factory, newValue) ==
    LET backup == S.components[factory][entity]
        edited == [S EXCEPT !.components[factory][entity] = newValue]
        action == [entity_ |-> entity, newValue_ |-> edited.components[factory][entity]]
    IN  [RestoreBackup(edited, entity, factory, backup) EXCEPT
            !.pendingEditActions_[factory] = Append(@, action)]

\* EntityManager::RenderExistingComponents, the user editing the component of
\* factory in its form
RenderEditComponent(S, entity, factory, newValue) ==
    [RenderUI(EnsureComponentTypesSorted(S), entity, factory, newValue) EXCEPT
        !.pendingEditComponents_ = Append(@, factory)]

\* EntityManager::RenderManagerInspector, the user ticking the checkbox of entity
RenderToggle(S, entity) ==
    [S EXCEPT !.pendingMaterializations_ =
        Append(@, <<entity, ~IsEntityMaterialized(S, entity)>>)]

\* EntityManager::RenderManagerInspector, the user pressing "Add Entity"
RenderAddEntity(S, env) ==
    LET c == CreateFresh(S) IN
    IF c.S.overflow THEN c.S ELSE MaterializeEntity(c.S, env, c.e)

\* ------------------------------------------------------------- behaviour
\* What a listener of the two signals does, the build, and the iteration order
\* of the unordered set pendingEntitiesAdded_ are choices of the environment.
Policies == {"none", "sync", "attach"}
Builds == {"debug", "release"}
Identity == [h \in Handles |-> h]
Perms == {f \in [Handles -> Handles] : \A a, b \in Handles : a # b => f[a] # f[b]}
Ranks(S) == IF S.pendingEntitiesAdded_ = {} THEN {Identity} ELSE Perms
Quiet == [listener |-> "none", build |-> "debug", rank |-> Identity]
Envs == [listener : Policies, build : Builds, rank : Ranks(St)]

Start(n) ==
    /\ packed = <<>>
    /\ inUse = 0
    /\ materialized = Empty
    /\ status = Empty
    /\ entity_ = Empty
    /\ parent = [n0 \in {ContainerNode} |-> SceneNode]
    /\ pendingEntitiesAdded_ = {}
    /\ registryDirty_ = FALSE
    /\ synchronizationInProgress_ = FALSE
    /\ suppressComponentEvents_ = FALSE
    /\ pendingMaterializations_ = <<>>
    /\ components = [t \in Types |-> <<>>]
    /\ componentFactories_ = <<>>
    /\ componentTypesSorted_ = FALSE
    /\ pendingEntityDecodes_ = <<>>
    /\ pendingCreateComponents_ = <<>>
    /\ pendingDestroyComponents_ = <<>>
    /\ pendingEditComponents_ = <<>>
    /\ pendingEditActions_ = [t \in Types |-> <<>>]
    /\ input = NoInput
    /\ held = NoBytes
    /\ nextRef = 1
    /\ nextPlain = 1
    /\ aborted = FALSE
    /\ signals = <<>>
    /\ calls = {}
    /\ trail = <<[op |-> "Init", entity |-> Null, ref |-> NoRef,
                  valid |-> FALSE, tagged |-> FALSE]>>
    /\ trailLen = n

\* the manager after construction and ApplyAttributes, in an empty scene
Init == Start(1)

Push(t, rec) ==
    LET a == Append(t, rec) IN
    IF Len(a) > trailLen THEN SubSeq(a, Len(a) - trailLen + 1, Len(a)) ELSE a

\* the state after entry point op returned S; the trail keeps the entity and
\* the handle it was about, and whether the entity was valid and tagged before
Becomes(S, op, e, r) ==
    /\ ~S.overflow
    /\ packed' = S.packed
    /\ inUse' = S.inUse
    /\ materialized' = S.materialized
    /\ status' = S.status
    /\ entity_' = S.entity_
    /\ parent' = S.parent
    /\ pendingEntitiesAdded_' = S.pendingEntitiesAdded_
    /\ registryDirty_' = S.registryDirty_
    /\ synchronizationInProgress_' = S.synchronizationInProgress_
    /\ suppressComponentEvents_' = S.suppressComponentEvents_
    /\ pendingMaterializations_' = S.pendingMaterializations_
    /\ components' = S.components
    /\ componentFactories_' = S.componentFactories_
    /\ componentTypesSorted_' = S.componentTypesSorted_
    /\ pendingEntityDecodes_' = S.pendingEntityDecodes_
    /\ pendingCreateComponents_' = S.pendingCreateComponents_
    /\ pendingDestroyComponents_' = S.pendingDestroyComponents_
    /\ pendingEditComponents_' = S.pendingEditComponents_
    /\ pendingEditActions_' = S.pendingEditActions_
    /\ input' = S.input
    /\ held' = S.held
    /\ nextRef' = S.nextRef
    /\ nextPlain' = S.nextPlain
    /\ aborted' = S.aborted
    /\ signals' = S.signals
    /\ calls' = S.calls
    /\ trail' = Push(trail, [op |-> op, entity |-> e, ref |-> r,
                             valid |-> Valid(St, e),
                             tagged |-> IsEntityMaterialized(St, e)])
    /\ trailLen' = trailLen

Last == trail[Len(trail)]
InUseIds == {packed[i] : i \in 1..inUse}

\* the handle of the first emission of sig for entity e, NoRef if there is none
EmittedRef(S, sig, e) ==
    LET hits == {i \in 1..Len(S.signals) :
                    S.signals[i].sig = sig /\ S.signals[i].entity = e}
    IN  IF hits = {} THEN NoRef
        ELSE S.signals[CHOOSE i \in hits : \A j \in hits : i <= j].ref

\* the host adds a node with an EntityReference whose Entity attribute is preset
HostAddReferenceAt(parents, presets) ==
    /\ ~aborted
    /\ \E p \in parents, preset \in presets :
          Becomes(AttachRef(St, p, preset), "HostAddReference", preset, nextRef)

\* the host adds a node without an EntityReference
HostAddNode ==
    /\ ~aborted
    /\ nextPlain <= MaxPlain
    /\ \E p \in Nodes(St) :
          Becomes([St EXCEPT !.parent = Put(@, PlainNode(nextPlain), p),
                             !.nextPlain = @ + 1], "HostAddNode", Null, NoRef)

\* the host removes a node (with everything below it) from the scene
HostRemoveNode ==
    /\ ~aborted
    /\ \E n \in Nodes(St) \ {ContainerNode}, build \in Builds :
          Becomes(RemoveNode(St, [Quiet EXCEPT !.build = build], n), "HostRemoveNode",
                  IF n[1] = "ref" THEN entity_[n[2]] ELSE Null,
                  IF n[1] = "ref" THEN n[2] ELSE NoRef)

\* registry-side code creates an entity (Registry().create())
RegistryCreate ==
    /\ ~aborted
    /\ LET c == CreateFresh(St) IN Becomes(c.S, "RegistryCreate", c.e, NoRef)

\* ForcedPostUpdate, EntityReference::ApplyAttributes or a direct call
DoSynchronize ==
    /\ ~aborted
    /\ \E env \in Envs : \E S \in {Synchronize(St, env)} :
          Becomes(S, "Synchronize", Null, NoRef)

DoMaterialize ==
    /\ ~aborted
    /\ \E e \in InUseIds, env \in Envs :
          LET S == MaterializeEntity(St, env, e) IN
          Becomes(S, "MaterializeEntity", e, EmittedRef(S, "materialized", e))

DoDematerialize ==
    /\ ~aborted
    /\ \E e \in InUseIds, env \in Envs :
          LET S == DematerializeEntity(St, env, e) IN
          Becomes(S, "DematerializeEntity", e, EmittedRef(S, "dematerializing", e))

DoSetDataAttr ==
    /\ ~aborted
    /\ \E snapshot \in Snapshots, build \in Builds :
          Becomes(SetDataAttr(St, [Quiet EXCEPT !.build = build], snapshot),
                  "SetDataAttr", Null, NoRef)

DoRenderToggle ==
    /\ ~aborted
    /\ Len(pendingMaterializations_) < MaxUi
    /\ \E e \in InUseIds :
          Becomes(RenderToggle(St, e), "RenderManagerInspector", e, NoRef)

DoRenderAddEntity ==
    /\ ~aborted
    /\ \E env \in Envs :
          LET S == RenderAddEntity(St, env) IN
          Becomes(S, "AddEntity", CreateFresh(St).e,
                  EmittedRef(S, "materialized", CreateFresh(St).e))

DoCommitActions ==
    /\ ~aborted
    /\ \E env \in Envs : Becomes(CommitActions(St, env), "CommitActions", Null, NoRef)

\* the component type names with and without a factory
Registered == {componentFactories_[i] : i \in DOMAIN componentFactories_}
Unregistered == Types \ Registered

\* the application registers a component type it has not registered yet
DoAddComponentType ==
    /\ ~aborted
    /\ \E name \in Unregistered :
          Becomes(AddComponentType(St, name), "AddComponentType", Null, NoRef)

\* registry-side code destroys an entity that has no handle
RegistryDestroy ==
    /\ ~aborted
    /\ \E e \in InUseIds \ DOMAIN materialized :
          Becomes(Destroy(St, e), "RegistryDestroy", e, NoRef)

\* registry-side code sets a component of a registered type
RegistryEmplace ==
    /\ ~aborted
    /\ \E e \in InUseIds, type \in Registered, value \in Values :
          Becomes([St EXCEPT !.components[type] = Put(@, e, value)],
                  "RegistryEmplace", e, NoRef)

\* registry-side code removes a component of an entity
RegistryRemove ==
    /\ ~aborted
    /\ \E type \in Types : \E e \in DOMAIN components[type] :
          Becomes([St EXCEPT !.components[type] = Drop(@, {e})],
                  "RegistryRemove", e, NoRef)

\* game code materializes an entity, no listener being connected
QuietMaterialize ==
    /\ ~aborted
    /\ \E e \in InUseIds, build \in Builds :
          LET S == MaterializeEntity(St, [Quiet EXCEPT !.build = build], e) IN
          Becomes(S, "MaterializeEntity", e, EmittedRef(S, "materialized", e))

\* the host saves the registry and loads the bytes back (a scene reload)
DoRoundTrip ==
    /\ ~aborted
    /\ \E r \in {GetDataAttr(St)}, build \in Builds :
          Becomes([SetDataAttr(r.S, [Quiet EXCEPT !.build = build], r.data)
                      EXCEPT !.input = [kind |-> "registry", data |-> r.data,
                                        build |-> build]],
                  "RoundTrip", Null, NoRef)

\* q with x put in as its k-th element
InsertAt(q, k, x) == SubSeq(q, 1, k - 1) \o <<x>> \o SubSeq(q, k, Len(q))

\* the storage blocks another build of the program may have written for the
\* component type `type`, about the entities of a snapshot
StorageBlocks(type, entities) ==
    {[type |-> type, components |-> <<>>]} \cup
    {[type |-> type, components |-> <<[entity |-> entities[i], value |-> v]>>] :
        i \in DOMAIN entities, v \in Values}

\* the host loads a snapshot of this registry that was written by a program
\* with a component type this one has not registered
DoLoadForeign ==
    /\ ~aborted
    /\ \E r \in {GetDataAttr(St)} :
          \E build \in Builds, k \in 1..(Len(r.data.storages) + 1),
             block \in UNION {StorageBlocks(t, r.data.entities) : t \in Unregistered} :
             \E data \in {[r.data EXCEPT !.storages = InsertAt(@, k, block)]} :
                Becomes([SetDataAttr(r.S, [Quiet EXCEPT !.build = build], data)
                            EXCEPT !.input = [kind |-> "registry", data |-> data,
                                              build |-> build]],
                        "LoadForeign", Null, NoRef)

\* the components of entity e, by type name; -1 where it has none
ComponentsOf(S, e) ==
    [t \in Types |-> IF HasComponent(S, t, e) THEN S.components[t][e] ELSE -1]

\* the host encodes an entity and keeps the bytes
DoEncodeEntity ==
    /\ ~aborted
    /\ \E e \in InUseIds : \E r \in {EncodeEntity(St, e)} :
          Becomes([r.S EXCEPT !.held = [entity |-> e, data |-> r.data,
                                        types |-> Registered,
                                        was |-> ComponentsOf(St, e)]],
                  "EncodeEntity", e, NoRef)

\* the host decodes the bytes it keeps onto an entity
DoDecodeEntity ==
    /\ ~aborted
    /\ held.entity # Null
    /\ \E e \in InUseIds :
          Becomes(DecodeEntity(St, e, held.data), "DecodeEntity", e, NoRef)

\* the editor of a program without listeners commits the staged actions
QuietCommitActions ==
    /\ ~aborted
    /\ \E build \in Builds :
          Becomes(CommitActions(St, [Quiet EXCEPT !.build = build]),
                  "CommitActions", Null, NoRef)

\* the user presses "Add Entity" in a program without listeners
QuietAddEntity ==
    /\ ~aborted
    /\ \E build \in Builds :
          LET S == RenderAddEntity(St, [Quiet EXCEPT !.build = build]) IN
          Becomes(S, "AddEntity", CreateFresh(St).e,
                  EmittedRef(S, "materialized", CreateFresh(St).e))

\* the component actions staged and not yet committed
Staged ==
    Len(pendingCreateComponents_) + Len(pendingDestroyComponents_)
        + Len(pendingEditComponents_)

\* the entities an EntityReference inspector may show: EntityReference::
\* RenderInspector passes the id of its handle when that is not null
Inspectable == {entity_[h] : h \in LiveRefs(St)} \ {Null}

\* a frame of the inspector of one entity, with at most one click
DoRenderEntityInspector ==
    /\ ~aborted
    /\ \E e \in Inspectable :
          \/ Becomes(RenderEntityInspector(St, e), "RenderEntityInspector", e, NoRef)
          \/ /\ Staged < MaxBatch
             /\ \E t \in Registered :
                   /\ ~HasComponent(St, t, e)
                   /\ Becomes(RenderCreateComponent(St, e, t),
                              "RenderEntityInspector", e, NoRef)
          \/ /\ Staged < MaxBatch
             /\ \E t \in Registered :
                   /\ HasComponent(St, t, e)
                   /\ Becomes(RenderRemoveComponent(St, e, t),
                              "RenderEntityInspector", e, NoRef)
          \/ /\ Staged < MaxBatch
             /\ \E t \in Registered, v \in Values :
                   /\ HasComponent(St, t, e)
                   /\ v # components[t][e]
                   /\ Becomes(RenderEditComponent(St, e, t, v),
                              "RenderEntityInspector", e, NoRef)

\* the encodings of one entity a scene file may hold for a handle
EntityBytes ==
    {<<>>} \cup {<<[type |-> t, exists |-> TRUE, value |-> MaxValue]>> : t \in Types}

\* the host sets the Data attribute of a handle (a scene file being loaded)
HostSetReferenceData ==
    /\ ~aborted
    /\ Len(pendingEntityDecodes_) < MaxDecodes
    /\ \E h \in LiveRefs(St), data \in EntityBytes :
          Becomes(SetReferenceDataAttr(St, h, data), "SetReferenceData",
                  entity_[h], h)

\* ---- Spec: registry, scene and loads; handles may carry any preset id
HostAddReference == HostAddReferenceAt(Nodes(St), Ids \cup {Null})

Next ==
    \/ HostAddReference
    \/ HostRemoveNode
    \/ RegistryCreate
    \/ DoSynchronize
    \/ DoMaterialize
    \/ DoDematerialize
    \/ DoSetDataAttr
    \/ DoRenderAddEntity

Spec == Init /\ [][Next]_vars

\* ---- SpecUi: the inspector's staged actions, with loads; handles are added
\* under the container without a preset id
UiAddReference == HostAddReferenceAt({ContainerNode}, {Null})

NextUi ==
    \/ UiAddReference
    \/ HostRemoveNode
    \/ DoSynchronize
    \/ DoMaterialize
    \/ DoDematerialize
    \/ DoSetDataAttr
    \/ DoRenderToggle
    \/ DoRenderAddEntity
    \/ DoCommitActions

SpecUi == Init /\ [][NextUi]_vars

\* ---- SpecTree: node hierarchies below materialized entities
TreeAddReference == HostAddReferenceAt(Nodes(St), {Null})

NextTree ==
    \/ TreeAddReference
    \/ HostAddNode
    \/ HostRemoveNode
    \/ RegistryCreate
    \/ DoSynchronize
    \/ DoMaterialize
    \/ DoDematerialize

SpecTree == Init /\ [][NextTree]_vars

\* ---- SpecCycle: sequences of MaterializeEntity and DematerializeEntity, with
\* the last three entry points kept in the trail
InitCycle == Start(3)

NextCycle ==
    \/ UiAddReference
    \/ RegistryCreate
    \/ DoSynchronize
    \/ DoMaterialize
    \/ DoDematerialize

SpecCycle == InitCycle /\ [][NextCycle]_vars

\* ---- SpecData: component data, registry snapshots and entity encodings
NextData ==
    \/ DoAddComponentType
    \/ RegistryCreate
    \/ RegistryDestroy
    \/ RegistryEmplace
    \/ RegistryRemove
    \/ QuietMaterialize
    \/ DoRoundTrip
    \/ DoLoadForeign

SpecData == Init /\ [][NextData]_vars

\* ---- SpecInspector: the inspector's staged actions, with entities destroyed
\* by registry-side code between staging and commit
NextInspector ==
    \/ DoAddComponentType
    \/ RegistryDestroy
    \/ DoRenderToggle
    \/ QuietAddEntity
    \/ DoRenderEntityInspector
    \/ QuietCommitActions

SpecInspector == Init /\ [][NextInspector]_vars

\* ---- SpecSync: handles queued for Synchronize with any preset id, with the
\* last three entry points kept in the trail
NextSync ==
    \/ HostAddReference
    \/ RegistryCreate
    \/ DoSynchronize

SpecSync == InitCycle /\ [][NextSync]_vars

\* ---- SpecDecode: handles and decodes queued for Synchronize, with loads
NextDecode ==
    \/ UiAddReference
    \/ DoAddComponentType
    \/ HostSetReferenceData
    \/ DoSetDataAttr
    \/ DoSynchronize

SpecDecode == Init /\ [][NextDecode]_vars

\* ---- SpecEntity: the encoding of one entity, kept by the host and decoded
\* later, after components and registered types may have changed
NextEntity ==
    \/ DoAddComponentType
    \/ RegistryCreate
    \/ RegistryEmplace
    \/ RegistryRemove
    \/ DoEncodeEntity
    \/ DoDecodeEntity

InitEntity == Start(2)

SpecEntity == InitEntity /\ [][NextEntity]_vars

\* ---- SpecOrder: decodes queued for handles that wait for Synchronize with a
\* preset id, and for handles bound before a load
\* the host adds a handle whose Entity attribute names the first entity id
OrderAddReference == HostAddReferenceAt({ContainerNode}, {<<0, 0>>})

\* the application registers the first component type
OrderAddComponentType ==
    /\ ~aborted
    /\ MinOf(Types) \in Unregistered
    /\ Becomes(AddComponentType(St, MinOf(Types)), "AddComponentType", Null, NoRef)

\* the encodings of one entity a scene file may hold for a handle, about the
\* component of the first type name: a value, or the component being absent
OrderedBytes ==
    {<<[type |-> t, exists |-> TRUE, value |-> MaxValue]>> : t \in {MinOf(Types)}}
        \cup {<<[type |-> t, exists |-> FALSE]>> : t \in {MinOf(Types)}}

\* the host sets the Data attribute of a handle to one of bytes, while fewer
\* than max decodes are queued
HostSetDataFrom(bytes, max) ==
    /\ ~aborted
    /\ Len(pendingEntityDecodes_) < max
    /\ \E h \in LiveRefs(St), data \in bytes :
          Becomes(SetReferenceDataAttr(St, h, data), "SetReferenceData",
                  entity_[h], h)

HostSetOrderedData == HostSetDataFrom(OrderedBytes, MaxOrdered)

NextOrder ==
    \/ OrderAddReference
    \/ OrderAddComponentType
    \/ HostSetOrderedData
    \/ DoSetDataAttr
    \/ DoSynchronize

InitOrder == Start(2)

SpecOrder == InitOrder /\ [][NextOrder]_vars

\* ---- SpecDrop: decodes queued for handles that are removed or dematerialized
\* before the next Synchronize, with the last three entry points in the trail
\* the encoding that gives an entity the component of the first type name
PresentBytes == {<<[type |-> t, exists |-> TRUE, value |-> MaxValue]>> : t \in {MinOf(Types)}}

HostSetPresentData == HostSetDataFrom(PresentBytes, MaxOrdered)

NextDrop ==
    \/ UiAddReference
    \/ OrderAddComponentType
    \/ HostSetPresentData
    \/ HostRemoveNode
    \/ DoMaterialize
    \/ DoDematerialize
    \/ DoSynchronize

SpecDrop == InitCycle /\ [][NextDrop]_vars

\* ---------------------------------------------------------------- claims
\* a state between entry points with nothing left for Synchronize to do
Settled == pendingEntitiesAdded_ = {} /\ ~registryDirty_ /\ ~aborted

HandlesOf(e) == {h \in DOMAIN entity_ : entity_[h] = e}

\* C1: in every reachable state, an entity of the registry carries the
\* EntityMaterialized tag if and only if a live handle bound to it exists, and
\* the tag's weak reference points to that handle.  Stated for the states where
\* no handle waits for Synchronize and the registry is not dirty, the most
\* favourable reading; the code violates it there.
C1_TagIffLiveHandle ==
    Settled =>
        \A e \in InUseIds :
            /\ (e \in DOMAIN materialized) <=> (HandlesOf(e) # {})
            /\ e \in DOMAIN materialized => materialized[e] \in HandlesOf(e)

\* C2: in every reachable state no two distinct live handles reference the
\* same non-null entity id.  Stated for the settled states as C1 is.
C2_NoSharedEntity ==
    Settled =>
        \A h, k \in DOMAIN entity_ :
            h # k /\ entity_[h] # Null => entity_[h] # entity_[k]

\* the emissions of sig for entity e during the last entry point
Emissions(sig, e) ==
    {i \in 1..Len(signals) : signals[i].sig = sig /\ signals[i].entity = e}

\* C3: MaterializeEntity(e) on a valid entity that is not materialized creates
\* one new handle bound to e on one new node under the entities container,
\* leaves e tagged with that handle and with MaterializationStatus true, emits
\* the materialized signal once for e, and leaves the new handle out of
\* pendingEntitiesAdded_.  When no listener calls back into the manager, nothing
\* else changes: exactly one node, one handle, one signal, the same entities.
C3_MaterializeCreatesOne ==
    [][\A e \in InUseIds :
        (/\ Last'.op = "MaterializeEntity"
         /\ Last'.entity = e
         /\ e \notin DOMAIN materialized)
        => /\ calls' = {} => ~aborted'
           /\ ~aborted' =>
                LET h == Last'.ref IN
                /\ h # NoRef
                /\ h \notin DOMAIN entity_
                /\ RefNode(h) \notin DOMAIN parent
                /\ h \in DOMAIN entity_' /\ entity_'[h] = e
                /\ RefNode(h) \in DOMAIN parent' /\ parent'[RefNode(h)] = ContainerNode
                /\ e \in DOMAIN materialized' /\ materialized'[e] = h
                /\ e \in DOMAIN status' /\ status'[e]
                /\ h \notin pendingEntitiesAdded_'
                /\ Cardinality(Emissions("materialized", e)') = 1
                /\ calls' = {} =>
                      /\ DOMAIN parent' = DOMAIN parent \cup {RefNode(h)}
                      /\ DOMAIN entity_' = DOMAIN entity_ \cup {h}
                      /\ Len(signals') = 1
                      /\ packed' = packed /\ inUse' = inUse
                      /\ pendingEntitiesAdded_' = pendingEntitiesAdded_
      ]_vars

C3_Witness ==
    /\ Last.op = "MaterializeEntity"
    /\ Last.valid /\ ~Last.tagged
    /\ Last.ref # NoRef
    /\ calls = {} /\ ~aborted
    /\ Last.entity \in DOMAIN materialized
    /\ pendingEntitiesAdded_ # {}

\* the fields of the program an entry point can change
Program ==
    <<packed, inUse, materialized, status, entity_, parent, pendingEntitiesAdded_,
      pendingMaterializations_, registryDirty_, synchronizationInProgress_,
      suppressComponentEvents_, aborted, components, pendingEntityDecodes_,
      pendingCreateComponents_, pendingDestroyComponents_, pendingEditComponents_,
      pendingEditActions_>>

\* C4: MaterializeEntity(e) on a materialized entity and DematerializeEntity(e)
\* on an entity that is not materialized change nothing (registry, scene,
\* handles, queues) and emit no signal.
C4_RedundantCallsAreNoOps ==
    [][\A e \in InUseIds :
        (\/ /\ Last'.op = "MaterializeEntity"
            /\ Last'.entity = e
            /\ e \in DOMAIN materialized
         \/ /\ Last'.op = "DematerializeEntity"
            /\ Last'.entity = e
            /\ e \notin DOMAIN materialized)
        => /\ Program' = Program
           /\ signals' = <<>>
           /\ calls' = {}
      ]_vars

C4_Witness ==
    /\ Len(trail) = 3
    /\ trail[2].op = "MaterializeEntity" /\ trail[2].valid /\ trail[2].tagged
    /\ trail[3].op = "DematerializeEntity" /\ trail[3].valid /\ ~trail[3].tagged
    /\ ~aborted

C6_Cycle ==
    (/\ Len(trail) = 3
     /\ trail[1].op = "MaterializeEntity" /\ trail[1].valid /\ ~trail[1].tagged
     /\ trail[2].op = "DematerializeEntity" /\ trail[2].entity = trail[1].entity
     /\ trail[3].op = "MaterializeEntity" /\ trail[3].entity = trail[1].entity
     /\ ~aborted)
    => LET e == trail[1].entity IN
       /\ trail[2].ref = trail[1].ref
       /\ e \in InUseIds
       /\ e \in DOMAIN status /\ status[e]
       /\ e \in DOMAIN materialized
       /\ materialized[e] \in DOMAIN entity_
       /\ entity_[materialized[e]] = e
       /\ materialized[e] = trail[3].ref
       /\ trail[1].ref # NoRef
       /\ materialized[e] # trail[1].ref

C6_Witness ==
    /\ Len(trail) = 3
    /\ trail[1].op = "MaterializeEntity" /\ trail[1].valid /\ ~trail[1].tagged
    /\ trail[2].op = "DematerializeEntity" /\ trail[2].entity = trail[1].entity
    /\ trail[3].op = "MaterializeEntity" /\ trail[3].entity = trail[1].entity
    /\ trail[3].ref # NoRef
    /\ ~aborted

\* the nodes below node n, and those directly below it
Below(n) == {c \in DOMAIN parent : Under(St, c, n)}
ChildrenOf(n) == {c \in DOMAIN parent : parent[c] = n}

\* C7: DematerializeEntity(e) reparents the direct children of the removed
\* node to that node's parent, deletes no node below the removed node, and
\* leaves the indirect descendants where they are.  Stated for listeners that
\* do not call back into the manager; the code violates it.
C7_FlattenKeepsSubtree ==
    [][\A e \in InUseIds :
        (/\ Last'.op = "DematerializeEntity"
         /\ Last'.entity = e
         /\ e \in DOMAIN materialized
         /\ materialized[e] \in DOMAIN entity_
         /\ calls' = {}
         /\ ~aborted')
        => LET n == RefNode(materialized[e]) IN
           /\ \A c \in Below(n) : c \in DOMAIN parent'
           /\ \A c \in ChildrenOf(n) : c \in DOMAIN parent' /\ parent'[c] = parent[n]
           /\ \A c \in Below(n) \ ChildrenOf(n) :
                 c \in DOMAIN parent' /\ parent'[c] = parent[c]
      ]_vars

\* C8: a call to Synchronize made while a pass is in progress changes no field
\* of the program (registry, queues, flags), and the pass it interrupts ends in
\* the state it would have ended in had the listeners not called at all.
C8_NestedSynchronizeIsNoOp ==
    /\ \A c \in calls : c.inProgress => ~c.changed /\ ~c.queuesChanged
    /\ ~aborted =>
         \A rank \in Ranks(St), build \in Builds :
            Core(Synchronize(St, [listener |-> "sync", build |-> build, rank |-> rank]))
              = Core(Synchronize(St, [listener |-> "none", build |-> build, rank |-> rank]))

C8_Witness ==
    /\ Last.op = "Synchronize"
    /\ \E c \in calls : c.inProgress
    /\ Len(signals) > 0
    /\ ~aborted

\* C9 as claimed: a Synchronize called from a handler of the materialized
\* signal (a handler that does nothing else) leaves the registry and the
\* pending queue unchanged, whatever the origin of the emission.
C9_HandlerCallNeverChanges ==
    \A c \in calls :
        c.sig = "materialized" /\ c.listener = "sync" => ~c.queuesChanged

\* C9, amended: the call is a no-op exactly when the emission comes from the
\* sweep of a Synchronize pass.  When MaterializeEntity was invoked directly,
\* by CommitActions or by the inspector's add-entity action, no pass is in
\* progress at the emission and the handler's call runs a complete pass: it
\* processes every handle that was pending at the call and leaves the registry
\* not dirty.
C9_NoOpOnlyDuringPass ==
    \A c \in calls :
        c.sig = "materialized" =>
            /\ c.inProgress => ~c.changed /\ ~c.queuesChanged
            /\ ~c.inProgress => c.drained
            /\ Last.op = "Synchronize" => c.inProgress
            /\ Last.op \in {"MaterializeEntity", "CommitActions", "AddEntity"}
                  => ~signals[1].inProgress /\ \E d \in calls : ~d.inProgress

C9_Witness ==
    /\ Last.op = "CommitActions"
    /\ \E c \in calls : c.sig = "materialized" /\ ~c.inProgress /\ c.queuesChanged
    /\ ~aborted

\* C10: when the host removes a handle bound to a valid entity e from the
\* scene, e is destroyed within the removal and the handle leaves
\* pendingEntitiesAdded_; and Synchronize, MaterializeEntity,
\* DematerializeEntity and CommitActions destroy no entity that has no handle.
C10_RemovalDestroysOnlyBound ==
    [][/\ \A h \in DOMAIN entity_ :
            (/\ Last'.op = "HostRemoveNode"
             /\ Last'.ref = h
             /\ entity_[h] \in InUseIds
             /\ ~aborted')
            => /\ entity_[h] \notin InUseIds'
               /\ h \notin pendingEntitiesAdded_'
               /\ h \notin DOMAIN entity_'
       /\ \A e \in InUseIds :
            (/\ Last'.op \in {"Synchronize", "MaterializeEntity",
                              "DematerializeEntity", "CommitActions"}
             /\ HandlesOf(e) = {}
             /\ e \notin DOMAIN materialized
             /\ ~aborted')
            => e \in InUseIds'
      ]_vars

C10_Witness ==
    /\ Last.op = "HostRemoveNode"
    /\ Last.ref # NoRef
    /\ Last.valid
    /\ Last.entity \notin InUseIds
    /\ InUseIds # {}
    /\ ~aborted

\* what a snapshot is meant to carry: the entity ids in use, the components of
\* every registered type and the MaterializationStatus of every entity
RegistryContent ==
    [ids |-> InUseIds, data |-> [t \in Registered |-> components[t]], status |-> status]

\* C11: saving the registry with GetDataAttr and loading the bytes back with
\* SetDataAttr leaves the same entity ids (index and generation), the same
\* components of every registered type and the same MaterializationStatus.
C11_RegistryRoundTrip ==
    [][(Last'.op = "RoundTrip" /\ ~aborted') => RegistryContent' = RegistryContent]_vars

\* a round trip of a registry with a recycled entity, component data and status
C11_Witness ==
    /\ Last.op = "RoundTrip" /\ ~aborted
    /\ \E e \in InUseIds : e[2] = 1 /\ e \in DOMAIN status
    /\ \E t \in Registered : \E e \in DOMAIN components[t] : components[t][e] = 1

\* a snapshot without the storage blocks of types that are not registered
KnownStorages(data) ==
    [data EXCEPT !.storages =
        LET keep == {i \in DOMAIN @ : @[i].type \in Registered}
            Nth(k) == CHOOSE i \in keep : Cardinality({j \in keep : j < i}) = k - 1
        IN  [k \in 1..Cardinality(keep) |-> @[Nth(k)]]]

\* C12: a full snapshot with a storage block of a type name that is not
\* registered loads without error; the load ends in the state that loading
\* the same snapshot without that block ends in, the block's elements dropped.
C12_UnknownStorageSkipped ==
    [][Last'.op = "LoadForeign" =>
          /\ \E S \in {St}, data \in {KnownStorages(input'.data)},
                env \in {[Quiet EXCEPT !.build = input'.build]} :
                Core(St)' = Core(SetDataAttr(S, env, data))
          /\ ~aborted'
          /\ \A t \in Unregistered : components'[t] = <<>>]_vars

\* a load of a snapshot whose foreign block has an element, next to a block of
\* a registered type that has one too
C12_Witness ==
    /\ Last.op = "LoadForeign"
    /\ \E i \in DOMAIN input.data.storages :
          /\ input.data.storages[i].type \notin Registered
          /\ input.data.storages[i].components # <<>>
          /\ i < Len(input.data.storages)
    /\ \E t \in Registered : components[t] # <<>>

\* C13: EncodeEntity(e), then every component of a registered type of e
\* destroyed, then DecodeEntity(e, bytes): e has exactly the components of
\* registered types it had when it was encoded, with the same data.
C13_EntityRoundTrip ==
    [][\A e \in Ids :
          (/\ Last'.op = "DecodeEntity" /\ Last'.entity = e /\ held.entity = e
           /\ \A t \in Registered : ~HasComponent(St, t, e))
          => \A t \in Registered :
                ComponentsOf(St, e)'[t] = IF t \in held.types THEN held.was[t] ELSE -1]_vars

\* the only registered component of e, of value 1, was removed and the decode
\* put it back
C13_Witness ==
    /\ Len(trail) = 2
    /\ trail[1].op = "RegistryRemove" /\ trail[1].entity = held.entity
    /\ trail[2].op = "DecodeEntity" /\ trail[2].entity = held.entity
    /\ \E t \in Registered :
          /\ held.types = {t}
          /\ held.was[t] = 1
          /\ HasComponent(St, t, held.entity) /\ components[t][held.entity] = 1
    /\ \E t \in Registered : t \notin held.types

\* C14: after DecodeEntity(e, bytes), a registered type that has no entry in
\* the bytes, or an entry whose flag is false, is absent from e; this includes
\* the types registered after the bytes were encoded.
C14_DecodeReplacesAll ==
    [][\A e \in Ids :
          (Last'.op = "DecodeEntity" /\ Last'.entity = e)
          => \A t \in Registered :
                (~\E i \in DOMAIN held.data :
                     held.data[i].type = t /\ held.data[i].exists)
                => ~HasComponent(St, t, e)']_vars

\* C15: RenderManagerInspector and RenderEntityInspector only stage: the ids in
\* use, every component storage, the tags and the scene are the same after the
\* call as before (the add-entity button included).
C15_RenderOnlyStages ==
    [][Last'.op \in {"RenderManagerInspector", "AddEntity", "RenderEntityInspector"}
          => /\ InUseIds' = InUseIds
             /\ components' = components /\ status' = status
             /\ materialized' = materialized
             /\ parent' = parent /\ entity_' = entity_]_vars

\* the handles that name entity e
NamedBy(e) == {h \in LiveRefs(St) : entity_[h] = e}

\* C16: CommitActions does not fail; a staged toggle, create or destroy whose
\* entity is no longer valid has no effect on that id, a create of a present
\* component and a destroy of an absent one are skipped, and every queue of
\* the inspector is empty on return.
C16_CommitSkipsStale ==
    [][Last'.op = "CommitActions" =>
          /\ ~aborted'
          /\ pendingMaterializations_' = <<>> /\ pendingCreateComponents_' = <<>>
          /\ pendingDestroyComponents_' = <<>> /\ pendingEditComponents_' = <<>>
          /\ \A t \in Types : pendingEditActions_'[t] = <<>>
          /\ \A e \in Ids \ InUseIds :
                /\ NamedBy(e)' = NamedBy(e)
                /\ e \notin DOMAIN materialized' /\ e \notin DOMAIN status'
                /\ \A t \in Types : e \notin DOMAIN components'[t]
          /\ \A t \in Types : \A e \in DOMAIN components[t] :
                (/\ \E i \in DOMAIN pendingCreateComponents_ :
                        pendingCreateComponents_[i] = <<e, t>>
                 /\ pendingDestroyComponents_ = <<>> /\ pendingEditComponents_ = <<>>)
                => components'[t][e] = components[t][e]]_vars

\* the ids in use in S
InUseOf(S) == {S.packed[i] : i \in 1..S.inUse}

\* h is bound to entity in T: its tag points to h and its status is true
BoundTo(T, h, entity) ==
    /\ T.entity_[h] = entity
    /\ EntityToReference(T, entity) = h
    /\ entity \in DOMAIN T.status /\ T.status[entity]

\* the three cases of one pending handle h, from S to T
CaseHolds(S, T, h) ==
    LET hint == S.entity_[h] IN
    IF EntityToReference(S, hint) = h THEN Core(T) = Core(S)
    ELSE IF Valid(S, hint) /\ EntityToReference(S, hint) = NoRef
    THEN InUseOf(T) = InUseOf(S) /\ BoundTo(T, h, hint)
    ELSE \E new \in InUseOf(T) \ InUseOf(S) :
            /\ InUseOf(T) = InUseOf(S) \cup {new}
            /\ BoundTo(T, h, new)
            /\ (hint # Null /\ \A e \in InUseOf(S) : e[1] # hint[1]) => new = hint

RECURSIVE CasesHold(_, _, _)
\* the cases hold for every handle of hs, processed in the order of env.rank
CasesHold(S, env, hs) ==
    \/ hs = {}
    \/ \E h \in {x \in hs : \A y \in hs : env.rank[x] <= env.rank[y]} :
          \E T \in {SyncOne(S, env, h)} :
             \/ T.aborted \/ T.overflow
             \/ CaseHolds(S, T, h) /\ CasesHold(T, env, hs \ {h})

\* C17: step 1 of Synchronize treats each pending handle h by one of three
\* cases: the id h claims already resolves to h and nothing changes; the id is
\* valid and no handle is bound to it, so h is bound to it and no entity is
\* created; otherwise one entity is created with the id as hint and h is bound
\* to the id returned. In the last two cases the entity is tagged with h and
\* its MaterializationStatus is true, and stays so when the call returns.
C17_PendingHandleCases ==
    [][(Last'.op = "Synchronize" /\ ~synchronizationInProgress_) =>
          /\ \E S \in {St} :
                \A env \in Envs : CasesHold(S, env, S.pendingEntitiesAdded_)
          /\ ~aborted' /\ ~registryDirty_ =>
                \A h \in pendingEntitiesAdded_ :
                   \E T \in {St'} : BoundTo(T, h, T.entity_[h])]_vars

\* one Synchronize bound a handle to the valid, untagged entity it named and
\* created the entity another handle named
C17_Witness ==
    /\ Len(trail) = 3 /\ ~aborted
    /\ trail[1].op = "HostAddReference" /\ trail[1].valid /\ ~trail[1].tagged
    /\ trail[2].op = "HostAddReference" /\ trail[2].entity # Null /\ ~trail[2].valid
    /\ trail[3].op = "Synchronize"
    /\ \A i \in 1..2 :
          /\ entity_[trail[i].ref] = trail[i].entity
          /\ EntityToReference(St, trail[i].entity) = trail[i].ref

\* C18: when a Synchronize that follows a load returns, the dirty flag is
\* false and an entity carries the EntityMaterialized tag iff its
\* MaterializationStatus is true (none counts as false); the flag is cleared
\* before the sweep, so its emissions see it false and a Synchronize without a
\* load in between does not sweep.
C18_SweepAfterLoad ==
    [][(Last'.op = "Synchronize" /\ ~synchronizationInProgress_ /\ ~aborted') =>
          /\ ~registryDirty_'
          /\ registryDirty_ =>
                \A e \in InUseIds' :
                   (e \in DOMAIN materialized') <=> (e \in DOMAIN status' /\ status'[e])
          /\ \A i \in DOMAIN signals' : signals'[i].inProgress => ~signals'[i].dirty
          /\ ~registryDirty_ => signals' = <<>>]_vars

\* a Synchronize after a load materialized an entity of the snapshot
C18_Witness ==
    /\ Last.op = "Synchronize" /\ ~aborted
    /\ \E i \in DOMAIN signals :
          /\ signals[i].sig = "materialized" /\ signals[i].inProgress
          /\ signals[i].entity \in DOMAIN materialized
    /\ \E e \in InUseIds : e \notin DOMAIN materialized

\* C19: when a load returns, every handle that a tag referenced before the
\* load and whose entity id is valid in the loaded registry is referenced by
\* the tag of that entity again: the same handle, no node or handle created,
\* and the dirty flag is set.
C19_LoadReattaches ==
    [][(Last'.op = "SetDataAttr" /\ ~aborted') =>
          /\ registryDirty_'
          /\ parent' = parent /\ entity_' = entity_ /\ nextRef' = nextRef
          /\ \E T \in {St'} :
                \A e \in DOMAIN materialized :
                   (materialized[e] \in LiveRefs(T) /\ Valid(T, entity_[materialized[e]]))
                   => EntityToReference(T, entity_[materialized[e]]) = materialized[e]]_vars

\* a load that put a tag back, of a registry that is not empty
C19_Witness ==
    /\ Last.op = "SetDataAttr" /\ ~aborted /\ registryDirty_
    /\ \E e \in InUseIds :
          /\ e \in DOMAIN materialized
          /\ materialized[e] \in LiveRefs(St)
          /\ entity_[materialized[e]] = e

DecodeTarget(h) ==
    IF h \in pendingEntitiesAdded_ THEN (IF h \in DOMAIN entity_' THEN entity_'[h] ELSE Null)
    ELSE IF h \in DOMAIN entity_ THEN entity_[h] ELSE Null

\* entity has what the entries of data about registered types say
HasDecoded(S, entity, data) ==
    \A k \in DOMAIN data :
        FindComponentType(S, data[k].type) =>
            IF data[k].exists
            THEN /\ HasComponent(S, data[k].type, entity)
                 /\ S.components[data[k].type][entity] = data[k].value
            ELSE ~HasComponent(S, data[k].type, entity)

\* C21: one Synchronize pass reconciles the pending handles, then applies the
\* pending decodes in the order they were queued, then sweeps: every emission
\* of the sweep sees both queues processed, the last decode queued for an
\* entity decides its components, and a decode queued for a handle that waits
\* for reconciliation is applied to the entity the pass binds the handle to.
C21_PassOrder ==
    [][(Last'.op = "Synchronize" /\ ~synchronizationInProgress_ /\ ~aborted') =>
          /\ \A k \in DOMAIN signals' :
                signals'[k].inProgress =>
                   /\ signals'[k].decodes = 0
                   /\ signals'[k].pending \cap pendingEntitiesAdded_ = {}
          /\ \E T \in {St'}, q \in {pendingEntityDecodes_} :
                \A i \in DOMAIN q :
                   \E target \in {DecodeTarget(q[i][1])} :
                      (/\ Valid(T, target)
                       /\ \A j \in DOMAIN q : j > i => DecodeTarget(q[j][1]) # target)
                      => /\ HasDecoded(T, target, q[i][2])
                         /\ q[i][1] \in pendingEntitiesAdded_ => BoundTo(T, q[i][1], target)]_vars

\* a decode was queued for a handle that named an entity bound to another
\* handle; the pass created an entity for the handle and decoded onto it
C21_Witness ==
    /\ Len(trail) = 2 /\ ~aborted
    /\ trail[1].op = "SetReferenceData" /\ trail[1].valid /\ trail[1].tagged
    /\ trail[2].op = "Synchronize"
    /\ trail[1].ref \in DOMAIN entity_
    /\ entity_[trail[1].ref] # trail[1].entity
    /\ EntityToReference(St, entity_[trail[1].ref]) = trail[1].ref
    /\ \E t \in Registered :
          /\ HasComponent(St, t, entity_[trail[1].ref])
          /\ ~HasComponent(St, t, trail[1].entity)

\* q continues p
IsPrefix(p, q) == Len(p) <= Len(q) /\ SubSeq(q, 1, Len(p)) = p

\* C22: a decode queued with QueueDecodeEntity changes no component until a
\* Synchronize pass runs: queuing changes nothing but the queue, and the other
\* entry points leave the queue and the components alone (components go only
\* with their entity).  The pass applies it if its handle is alive and names
\* an entity then; the components of an entity that no such decode is for are
\* unchanged, so a decode whose handle was destroyed or dematerialized in
\* between is dropped, and the queue is empty afterwards.
C22_DecodeDeferred ==
    [][/\ Last'.op = "SetReferenceData" =>
             /\ components' = components /\ status' = status
             /\ materialized' = materialized /\ packed' = packed /\ inUse' = inUse
       /\ (Last'.op # "Synchronize" /\ \A c \in calls' : c.inProgress) =>
             /\ IsPrefix(pendingEntityDecodes_, pendingEntityDecodes_')
             /\ \A t \in Types : \A e \in DOMAIN components'[t] :
                   e \in DOMAIN components[t] /\ components'[t][e] = components[t][e]
       /\ (Last'.op = "Synchronize" /\ ~synchronizationInProgress_ /\ ~aborted') =>
             /\ pendingEntityDecodes_' = <<>>
             /\ \E T \in {St'}, q \in {pendingEntityDecodes_} :
                   /\ \A e \in Ids :
                         (\A i \in DOMAIN q : DecodeTarget(q[i][1]) # e)
                         => ComponentsOf(St, e)' = ComponentsOf(St, e)
                   /\ \A i \in DOMAIN q :
                         \E target \in {DecodeTarget(q[i][1])} :
                            Valid(T, target) => HasDecoded(T, target, q[i][2])]_vars

\* a decode was queued for the handle of a materialized entity, the entity
\* was dematerialized, and the next Synchronize left the entity without the
\* component of the bytes
C22_Witness ==
    /\ Len(trail) = 3 /\ ~aborted
    /\ trail[1].op = "SetReferenceData" /\ trail[1].valid /\ trail[1].tagged
    /\ trail[2].op = "DematerializeEntity"
    /\ trail[2].entity = trail[1].entity /\ trail[2].ref = trail[1].ref
    /\ trail[3].op = "Synchronize"
    /\ trail[1].ref \notin DOMAIN entity_
    /\ trail[1].entity \in InUseIds
    /\ MinOf(Types) \in Registered
    /\ ~HasComponent(St, MinOf(Types), trail[1].entity)
    /\ pendingEntityDecodes_ = <<>>

\* the ids of entries are in strictly ascending index
Ascending(entries) ==
    \A k \in DOMAIN entries :
        k > 1 => ToEntity(entries[k - 1])[1] < ToEntity(entries[k])[1]

\* the entity ids of the elements of one component array
ElementIds(elements) == [k \in DOMAIN elements |-> elements[k].entity]

\* C23: in the snapshot GetDataAttr writes, the entities array, the
\* MaterializationStatus array and the array of every component type list each
\* entity of the storage once, in strictly ascending entity index, and the
\* storage blocks are in ascending type name; the sequences are the same for
\* every order in which the storages may hold their entities.
C23_SnapshotsSorted ==
    ~aborted =>
        \E data \in {GetDataAttr(St).data} :
            /\ Ascending(data.entities)
            /\ {ToEntity(data.entities[k]) : k \in DOMAIN data.entities} = InUseIds
            /\ Ascending(ElementIds(data.status))
            /\ {ToEntity(data.status[k].entity) : k \in DOMAIN data.status} = DOMAIN status
            /\ \A b \in DOMAIN data.storages :
                  /\ Ascending(ElementIds(data.storages[b].components))
                  /\ {ToEntity(data.storages[b].components[k].entity) :
                         k \in DOMAIN data.storages[b].components}
                        = DOMAIN components[data.storages[b].type]
                  /\ b > 1 => data.storages[b - 1].type < data.storages[b].type
            /\ \A view \in Enumerations(InUseIds) :
                  SortEntities(view) = SortEntities(Each(St))
            /\ \A view \in Enumerations(DOMAIN status) :
                  SortEntities(view) = SortEntities(View(status))
            /\ \A t \in Types : \A view \in Enumerations(DOMAIN components[t]) :
                  SortEntities(view) = SortEntities(View(components[t]))

\* a registry that was saved and loaded, whose entity storage does not iterate
\* in index order, with a recycled entity and two entities in one component
\* storage
C23_Witness ==
    /\ ~aborted
    /\ Last.op = "RoundTrip"
    /\ Len(input.data.entities) = 2
    /\ inUse = 2 /\ EntityIndexComparator(Each(St)[2], Each(St)[1])
    /\ \E e \in InUseIds : e[2] = 1
    /\ DOMAIN status = InUseIds
    /\ \E t \in Registered : DOMAIN components[t] = InUseIds

\* C24: a listener of the materialized signal sees the entity tagged, the tag
\* resolving to the handle passed, the status true and the handle bound to the
\* entity on a node of the scene; a listener of the dematerializing signal sees
\* the entity still tagged with the handle passed, the handle still bound to
\* it and in the scene, and, for a direct DematerializeEntity, the nodes below
\* the handle's node, the status and the queue as they were before the call.
C24_SignalsSeeConsistentState ==
    [][/\ \A k \in DOMAIN signals' :
             /\ signals'[k].tagged
             /\ signals'[k].tagRef = signals'[k].ref
             /\ signals'[k].refEntity = signals'[k].entity
             /\ signals'[k].inScene
             /\ signals'[k].sig = "materialized" => signals'[k].status
       /\ \A e \in InUseIds :
             (/\ Last'.op = "DematerializeEntity" /\ Last'.entity = e
              /\ e \in DOMAIN materialized /\ materialized[e] \in DOMAIN entity_)
             => /\ Len(signals') >= 1
                /\ signals'[1].sig = "dematerializing"
                /\ signals'[1].entity = e /\ signals'[1].ref = materialized[e]
                /\ signals'[1].below = Below(RefNode(materialized[e]))
                /\ signals'[1].status = (e \in DOMAIN status /\ status[e])
                /\ signals'[1].pending = pendingEntitiesAdded_
                /\ signals'[1].dirty = registryDirty_]_vars

\* a DematerializeEntity whose listener saw nodes below the handle's node
C24_Witness ==
    /\ Last.op = "DematerializeEntity" /\ Last.valid /\ Last.tagged /\ ~aborted
    /\ Len(signals) >= 1
    /\ signals[1].sig = "dematerializing" /\ signals[1].entity = Last.entity
    /\ signals[1].tagged /\ signals[1].inScene /\ signals[1].below # {}
    /\ Last.entity \notin DOMAIN materialized

\* the staged edits of type t that no later staged edit of the same entity
\* overrides
LastEdits(t) ==
    {i \in DOMAIN pendingEditActions_[t] :
        \A j \in DOMAIN pendingEditActions_[t] :
            j > i => pendingEditActions_[t][j].entity_ # pendingEditActions_[t][i].entity_}

\* C25: a frame of the entity inspector in which a component's form reports a
\* change leaves every live component as it was and stages the edited value;
\* no entry point other than CommitActions changes the value of a component;
\* CommitActions gives the component the staged value.
C25_EditIsStaged ==
    [][/\ Last'.op = "RenderEntityInspector" =>
             /\ components' = components
             /\ \A t \in Types :
                   \/ pendingEditActions_'[t] = pendingEditActions_[t]
                   \/ \E v \in Values :
                         /\ v # components[t][Last'.entity]
                         /\ pendingEditActions_'[t] =
                               Append(pendingEditActions_[t],
                                      [entity_ |-> Last'.entity, newValue_ |-> v])
                         /\ pendingEditComponents_' = Append(pendingEditComponents_, t)
       /\ Last'.op # "CommitActions" =>
             \A t \in Types : \A e \in DOMAIN components'[t] :
                e \in DOMAIN components[t] /\ components'[t][e] = components[t][e]
       /\ (Last'.op = "CommitActions" /\ ~aborted') =>
             \A t \in Types : \A i \in LastEdits(t) :
                \E e \in {pendingEditActions_[t][i].entity_} :
                   (/\ \E k \in DOMAIN pendingEditComponents_ : pendingEditComponents_[k] = t
                    /\ e \in DOMAIN components'[t])
                   => components'[t][e] = pendingEditActions_[t][i].newValue_]_vars

\* CommitActions gave a component the value that an edit had staged
C25_Witness ==
    /\ Last.op = "CommitActions" /\ ~aborted
    /\ pendingEditComponents_ = <<>>
    /\ \E t \in Registered : \E e \in DOMAIN components[t] : components[t][e] = MaxValue

\* the component of type t of entity e is there when the staged edits are
\* committed: after the staged creates and destroys of the batch
PresentAtEdit(t, e) ==
    /\ e \in InUseIds
    /\ \/ e \in DOMAIN components[t]
       \/ \E k \in DOMAIN pendingCreateComponents_ : pendingCreateComponents_[k] = <<e, t>>
    /\ \A k \in DOMAIN pendingDestroyComponents_ : pendingDestroyComponents_[k] # <<e, t>>

\* C26: CommitActions with staged component edits returns with the lists of
\* staged edits empty; a staged edit whose entity is not valid or whose
\* component is not there any more (a destroy of it was staged in the same
\* batch) is skipped and creates no component, and the last edit staged for a
\* component that is there is applied.
C26_CommitEditsSkipMissing ==
    [][(Last'.op = "CommitActions" /\ pendingMaterializations_ = <<>>) =>
          /\ ~aborted'
          /\ pendingEditComponents_' = <<>>
          /\ \A t \in Types : pendingEditActions_'[t] = <<>>
          /\ \A t \in Types : \A i \in DOMAIN pendingEditActions_[t] :
                \E e \in {pendingEditActions_[t][i].entity_} :
                   IF PresentAtEdit(t, e)
                   THEN i \in LastEdits(t) =>
                           /\ e \in DOMAIN components'[t]
                           /\ components'[t][e] = pendingEditActions_[t][i].newValue_
                   ELSE e \notin DOMAIN components'[t]]_vars

\* C27: whenever the host removes from the scene a handle whose entity id is
\* not null, that id is valid in the registry, so the assertion of the removal
\* observer holds.
C27_RemovedHandleNamesValid ==
    [][\A h \in DOMAIN entity_ :
          (Last'.op = "HostRemoveNode" /\ Last'.ref = h /\ entity_[h] # Null)
          => entity_[h] \in InUseIds /\ ~aborted']_vars

\* C28: when the host removes the node of handle h, an entity whose tag
\* references a live handle that stays in the scene remains valid, and so does
\* an entity that h, still waiting for its first Synchronize, only names.
C28_RemovalSparesOthers ==
    [][\A h \in DOMAIN entity_ :
          (Last'.op = "HostRemoveNode" /\ Last'.ref = h /\ ~aborted')
          => \A e \in InUseIds :
                (\/ /\ EntityToReference(St, e) # NoRef
                    /\ EntityToReference(St, e) \in DOMAIN entity_'
                 \/ /\ h \in pendingEntitiesAdded_
                    /\ entity_[h] = e
                    /\ RefsIn(St, SubTree(St, RefNode(h))) = {h})
                => e \in InUseIds']_vars

\* C29: between entry points, when the dirty flag is false, an entity of the
\* registry carries the EntityMaterialized tag if and only if its
\* MaterializationStatus is true (no status counts as false).
C29_TagIffStatus ==
    (~registryDirty_ /\ ~aborted) =>
        \A e \in InUseIds :
            (e \in DOMAIN materialized) <=> (e \in DOMAIN status /\ status[e])

\* a Synchronize swept a loaded registry and left a tagged entity next to a
\* handle whose entity the load did not bring back
C29_Witness ==
    /\ Last.op = "Synchronize" /\ ~registryDirty_ /\ ~aborted
    /\ signals # <<>>
    /\ \E e \in InUseIds : e \in DOMAIN materialized /\ status[e]
    /\ \E h \in DOMAIN entity_ : entity_[h] # Null /\ entity_[h] \notin InUseIds

\* ---- SpecTick: handles added and removed by the host and entities created
\* by registry-side code, with the scene's forced
\* post-update event delivered again and again (EntityManager.cpp:340-343,
\* 743-747): a Synchronize that can run is not postponed forever
NextTick ==
    \/ HostAddReference
    \/ HostRemoveNode
    \/ RegistryCreate
    \/ DoSynchronize

SpecTick == InitOrder /\ [][NextTick]_vars /\ WF_vars(DoSynchronize)

\* the handle is in the scene and its entity carries the tag that points to it
IsBound(h) ==
    /\ h \in DOMAIN entity_
    /\ Valid(St, entity_[h])
    /\ EntityToReference(St, entity_[h]) = h

\* the registry of the model has no id left for the entities a pass would create
Exhausted == \A env \in Envs : Synchronize(St, env).overflow

\* C30: a handle queued by OnComponentAdded is, while the forced post-update
\* ticks keep coming, eventually bound to a valid entity whose
\* EntityMaterialized tag points to it, unless the host removes it first (or the
\* process has stopped on a failed assertion of another entry point, or the
\* model has run out of ids); synchronizationInProgress_ is false whenever no
\* Synchronize is executing, so no tick is dropped.
C30_PendingHandleGetsBound ==
    /\ [](~aborted => ~synchronizationInProgress_)
    /\ \A h \in Handles :
          (h \in pendingEntitiesAdded_)
              ~> (IsBound(h) \/ h \notin DOMAIN entity_ \/ aborted \/ Exhausted)

\* the host added a handle and the next tick bound it
C30_Witness ==
    /\ Len(trail) = 2 /\ ~aborted
    /\ trail[1].op = "HostAddReference" /\ Last.op = "Synchronize"
    /\ IsBound(trail[1].ref)
    /\ \E h \in DOMAIN entity_ : h # trail[1].ref /\ IsBound(h)

====
